---------------------------- MODULE Spec2Model ----------------------------
(***************************************************************************)
(* A model of the resume generator of this repository: the response        *)
(* parser and the bullet truncation of src/backend/resume_generator.py,    *)
(* the tailoring pipeline that calls them, the interactive session of      *)
(* src/app.py and the HTTP endpoint of src/backend/main.py that start the  *)
(* pipeline, and the file-backed profile store of src/profile_manager.py   *)
(* and src/backend/profile_manager.py.                                     *)
(*                                                                         *)
(* A Python str is a sequence of one-character strings, so that slicing,   *)
(* splitting, stripping, searching and parsing are computed on characters. *)
(***************************************************************************)
EXTENDS Integers, Sequences, FiniteSets, TLC

VARIABLES
    text,       \* extract harness: the raw response handed to extract_json_from_text
    origin,     \* extract harness: how the response was composed (ghost)
    result,     \* extract harness: what extract_json_from_text did with it
    bullets,    \* truncation harness: the list handed to truncate_bullets_to_25_words
    bulletGen,  \* truncation harness: how each bullet was composed (ghost)
    truncated,  \* truncation harness: the list returned
    files,      \* profile store: the documents of the profiles directory, by file stem
    backups,    \* profile store: the documents of the backup directory the backend found
    last_create, \* profile store: the latest create_profile, its arguments and the name it returned
    last_load,  \* profile store: the latest load_profile since, its argument and its outcome
    api_key,    \* the configured API key ("" when none is saved)
    profile,    \* st.session_state.profile: <<>> for None, <<P>> when P is loaded
    generated_resume,       \* st.session_state.generated_resume: <<>> for None
    resume_history,         \* st.session_state.resume_history, newest first
    current_resume_index,   \* st.session_state.current_resume_index
    history_file,           \* resume_history.json: its entries, or cut when it holds no JSON
    jd_input,               \* st.session_state["jd_input"]
    current_profile_name,   \* st.session_state.current_profile_name: <<>> for None
    confirm_delete_navbar,  \* st.session_state.confirm_delete_navbar
    confirm_asked_for,      \* the current_profile_name of the click that asked to confirm (ghost)
    last_action,            \* the UI handler that ran last (ghost)
    history_ops,            \* the history handlers run so far (ghost)
    writers,    \* concurrent saves: the create_profile call each writer is in, its locals
    sessions,   \* concurrent sessions: the resume_history each session holds
    pc,         \* where the request being served stands
    req,        \* the request being served: entry point and arguments
    idx,        \* the experience or project whose generation call is in flight
    tailored,   \* generate_tailored_resume's locals: the sections tailored so far
    calls,      \* the generation calls issued for the request, in order
    outcome,    \* what the entry point reported
    received,   \* the responses the service gave to the calls, in order (ghost)
    fonts,      \* export harness: whether the font files export_to_pdf loads are found
    export_resume, \* export harness: the dict handed to the renderers
    exported    \* export harness: what each renderer that has run did with it

extractVars == <<text, origin, result>>
truncVars == <<bullets, bulletGen, truncated>>
storeVars == <<files, backups, last_create, last_load>>
sessionVars ==
    <<api_key, profile, generated_resume, resume_history, current_resume_index, history_file, jd_input>>
editorVars ==
    <<current_profile_name, confirm_delete_navbar, confirm_asked_for, last_action, history_ops>>
requestVars == <<pc, req, idx, tailored, calls, outcome, received>>
raceVars == <<writers, sessions>>
exportVars == <<fonts, export_resume, exported>>
vars == <<extractVars, truncVars, storeVars, sessionVars, editorVars, requestVars, raceVars, exportVars>>

(***************************************************************************)
(* Characters and strings.                                                 *)
(***************************************************************************)
Q == "\""
NL == "\n"
\* The whitespace the model's texts use; Python's \s, str.split and str.strip
\* and JSON's whitespace all treat the space and the newline as whitespace.
WS == {" ", NL}
Digits == {"0", "1", "2", "3", "4", "5", "6", "7", "8", "9"}
\* A TLA+ string cannot hold the backquote character: "^" stands for it, and no
\* text of the model holds a circumflex.
BQ == "^"
Fence == <<BQ, BQ, BQ>>
JsonTag == <<"j", "s", "o", "n">>

Min(S) == CHOOSE m \in S : \A n \in S : m <= n
Max(S) == CHOOSE m \in S : \A n \in S : m >= n

\* s[i:] of Python, for a 1-based i
Tail_from(s, i) == SubSeq(s, i, Len(s))

\* s.startswith(p, i - 1) of Python, for a 1-based i
StartsAt(s, i, p) ==
    /\ i + Len(p) - 1 <= Len(s)
    /\ \A k \in 1..Len(p) : s[i + k - 1] = p[k]

\* n copies of the character c
Rep(c, n) == [k \in 1..n |-> c]

RECURSIVE Concat(_)
\* the concatenation of a sequence of strings
Concat(ss) == IF ss = <<>> THEN <<>> ELSE Head(ss) \o Concat(Tail(ss))

RECURSIVE JoinWith(_, _)
\* sep.join(ss) of Python
JoinWith(ss, sep) ==
    IF ss = <<>> THEN <<>>
    ELSE IF Len(ss) = 1 THEN ss[1]
    ELSE ss[1] \o sep \o JoinWith(Tail(ss), sep)

DigitSeq == <<"0", "1", "2", "3", "4", "5", "6", "7", "8", "9">>

RECURSIVE Str(_)
\* str(n) of Python, for a natural number n
Str(n) == IF n < 10 THEN <<DigitSeq[n + 1]>> ELSE Str(n \div 10) \o <<DigitSeq[(n % 10) + 1]>>

RECURSIVE first_in(_, _, _)
RECURSIVE first_not_in(_, _, _)
\* the first position from i on whose character is in cs (Len(s) + 1 if there is none)
first_in(s, i, cs) ==
    IF i > Len(s) \/ s[i] \in cs THEN i ELSE first_in(s, i + 1, cs)
\* the first position from i on whose character is not in cs (Len(s) + 1 if there is none)
first_not_in(s, i, cs) ==
    IF i > Len(s) \/ s[i] \notin cs THEN i ELSE first_not_in(s, i + 1, cs)

RECURSIVE split_from(_, _)
\* the words of s from position i on: each runs from the next character that is
\* no whitespace up to the whitespace after it
split_from(s, i) ==
    LET b == first_not_in(s, i, WS)
        e == first_in(s, b, WS)
    IN  IF b > Len(s) THEN <<>> ELSE <<SubSeq(s, b, e - 1)>> \o split_from(s, e)

\* s.split() of Python: the maximal runs of characters that are no whitespace
split(s) == split_from(s, 1)

\* s.strip() of Python
strip(s) ==
    LET keep == {i \in 1..Len(s) : s[i] \notin WS}
    IN  IF keep = {} THEN <<>> ELSE SubSeq(s, Min(keep), Max(keep))

(***************************************************************************)
(* JSON values, as json.loads builds them: a pair of the value's type and  *)
(* its content, which for a dict is a function from its keys, for a list a *)
(* sequence of values, and for a str its characters.                       *)
(***************************************************************************)
JStr(s) == <<"str", s>>
JNum(s) == <<"num", s>>
JLit(s) == <<"lit", s>>
JArr(items) == <<"arr", items>>
JObj(f) == <<"obj", f>>
\* what kind of value v is, and its content
TypeOf(v) == v[1]
Content(v) == v[2]
EmptyDict == JObj([k \in {} |-> k])
JNone == JLit(<<"n", "u", "l", "l">>)

IsDict(v) == TypeOf(v) = "obj"
\* key in d
HasKey(d, k) == k \in DOMAIN Content(d)
\* d[k] = x
DictSet(d, k, x) ==
    JObj([j \in (DOMAIN Content(d)) \cup {k} |-> IF j = k THEN x ELSE Content(d)[j]])

NoParse == [ok |-> FALSE, val |-> JNone, pos |-> 0]
Parsed(v, p) == [ok |-> TRUE, val |-> v, pos |-> p]

\* the first position from i on that holds no whitespace (Len(s) + 1 at the end)
SkipWs(s, i) == first_not_in(s, i, WS)

\* A string literal opening at s[i]: it closes at the next quote and holds no
\* control character (json.loads is strict). The texts hold no backslash.
ParseString(s, i) ==
    LET c == first_in(s, i + 1, {Q})
    IN  IF c > Len(s) THEN NoParse
        ELSE IF \E k \in (i + 1)..(c - 1) : s[k] = NL THEN NoParse
        ELSE Parsed(JStr(SubSeq(s, i + 1, c - 1)), c + 1)

\* An integer literal opening at s[i]: its digits, with no leading zero.
ParseNumber(s, i) ==
    LET e == first_not_in(s, i, Digits)
    IN  IF s[i] = "0" THEN Parsed(JNum(<<"0">>), i + 1)
        ELSE Parsed(JNum(SubSeq(s, i, e - 1)), e)

Literals == {<<"n", "u", "l", "l">>, <<"t", "r", "u", "e">>, <<"f", "a", "l", "s", "e">>}

RECURSIVE ParseValue(_, _)
RECURSIVE ParseMembers(_, _, _)
RECURSIVE ParseElements(_, _, _)

\* the members of an object, from the key at s[i] to the closing brace
ParseMembers(s, i, acc) ==
    IF i > Len(s) \/ s[i] # Q THEN NoParse
    ELSE LET key == ParseString(s, i)
         IN  IF ~key.ok THEN NoParse
             ELSE LET c == SkipWs(s, key.pos)
                  IN  IF c > Len(s) \/ s[c] # ":" THEN NoParse
                      ELSE LET val == ParseValue(s, SkipWs(s, c + 1))
                           IN  IF ~val.ok THEN NoParse
                               ELSE LET e == SkipWs(s, val.pos)
                                        d == DictSet(acc, Content(key.val), val.val)
                                    IN  IF e > Len(s) THEN NoParse
                                        ELSE IF s[e] = "}" THEN Parsed(d, e + 1)
                                        ELSE IF s[e] = "," THEN ParseMembers(s, SkipWs(s, e + 1), d)
                                        ELSE NoParse

\* the elements of an array, from the value at s[i] to the closing bracket
ParseElements(s, i, acc) ==
    LET val == ParseValue(s, i)
    IN  IF ~val.ok THEN NoParse
        ELSE LET e == SkipWs(s, val.pos)
                 a == Append(acc, val.val)
             IN  IF e > Len(s) THEN NoParse
                 ELSE IF s[e] = "]" THEN Parsed(JArr(a), e + 1)
                 ELSE IF s[e] = "," THEN ParseElements(s, SkipWs(s, e + 1), a)
                 ELSE NoParse

\* the JSON value that opens at s[i]
ParseValue(s, i) ==
    IF i > Len(s) THEN NoParse
    ELSE IF s[i] = "{" THEN
        LET j == SkipWs(s, i + 1)
        IN  IF j <= Len(s) /\ s[j] = "}" THEN Parsed(EmptyDict, j + 1)
            ELSE ParseMembers(s, j, EmptyDict)
    ELSE IF s[i] = "[" THEN
        LET j == SkipWs(s, i + 1)
        IN  IF j <= Len(s) /\ s[j] = "]" THEN Parsed(JArr(<<>>), j + 1)
            ELSE ParseElements(s, j, <<>>)
    ELSE IF s[i] = Q THEN ParseString(s, i)
    ELSE IF s[i] \in Digits THEN ParseNumber(s, i)
    ELSE IF \E l \in Literals : StartsAt(s, i, l) THEN
        LET l == CHOOSE l \in Literals : StartsAt(s, i, l)
        IN  Parsed(JLit(l), i + Len(l))
    ELSE NoParse

\* json.loads(s): one JSON value and nothing but whitespace around it
json_loads(s) ==
    LET v == ParseValue(s, SkipWs(s, 1))
    IN  IF v.ok /\ SkipWs(s, v.pos) = Len(s) + 1 THEN v ELSE NoParse


(***************************************************************************)
(* extract_json_from_text (src/backend/resume_generator.py:16-41).         *)
(***************************************************************************)
ExcerptLen == 200

NoMatch == [found |-> FALSE, group |-> <<>>]

\* Where the group of the fenced pattern can open when the fence is at s[i]:
\* after the fence, the optional tag json if it is there, and all whitespace.
FenceOpen(s, i) ==
    LET p == i + Len(Fence)
    IN  SkipWs(s, IF StartsAt(s, p, JsonTag) THEN p + Len(JsonTag) ELSE p)

\* Where the lazy group opened at s[q] can close: at a closing brace that only
\* whitespace separates from a fence.
FenceCloses(s, q) ==
    {e \in (q + 1)..Len(s) : s[e] = "}" /\ StartsAt(s, SkipWs(s, e + 1), Fence)}

\* The first re.search, for a fence, an optional tag json, whitespace, a lazy
\* brace-delimited group, whitespace and a fence, with DOTALL: the leftmost
\* fence that the pattern matches from, and for it the shortest group.
search_fenced(s) ==
    LET starts == {i \in 1..Len(s) :
                      /\ StartsAt(s, i, Fence)
                      /\ FenceOpen(s, i) <= Len(s)
                      /\ s[FenceOpen(s, i)] = "{"
                      /\ FenceCloses(s, FenceOpen(s, i)) # {}}
    IN  IF starts = {} THEN NoMatch
        ELSE LET q == FenceOpen(s, Min(starts))
             IN  [found |-> TRUE, group |-> SubSeq(s, q, Min(FenceCloses(s, q)))]

\* search_braces with a lazy group: it closes at the first closing brace
search_braces_lazy(s) ==
    LET opens == {i \in 1..Len(s) : s[i] = "{"}
    IN  IF opens = {} THEN [found |-> FALSE, group |-> <<>>]
        ELSE LET a == Min(opens)
                 closes == {j \in (a + 1)..Len(s) : s[j] = "}"}
             IN  IF closes = {} THEN [found |-> FALSE, group |-> <<>>]
                 ELSE [found |-> TRUE, group |-> SubSeq(s, a, Min(closes))]

\* The second re.search, for a greedy brace-delimited group with DOTALL: from
\* the first opening brace to the last closing brace after it.
search_braces(s) ==
    LET opens == {i \in 1..Len(s) : s[i] = "{"}
    IN  IF opens = {} THEN NoMatch
        ELSE LET a == Min(opens)
                 closes == {j \in (a + 1)..Len(s) : s[j] = "}"}
             IN  IF closes = {} THEN NoMatch
                 ELSE [found |-> TRUE, group |-> SubSeq(s, a, Max(closes))]

\* Excerpt without the slice: the whole text
Excerpt_unsliced(s) == s

\* text[:200]
Excerpt(s) == SubSeq(s, 1, Min({ExcerptLen, Len(s)}))

Returned(v, tried) == [ok |-> TRUE, val |-> v, tried |-> tried, excerpt |-> <<>>]
\* raise ValueError(f"Could not extract valid JSON from response: {text[:200]}...")
Raised(s, tried) == [ok |-> FALSE, val |-> JNone, tried |-> tried, excerpt |-> Excerpt(s)]

\* extract_json_from_text(text). tried lists the json.loads attempts in the
\* order they were made.
extract_json_from_text(s) ==
    LET whole == json_loads(s)
        fenced == search_fenced(s)
        braces == search_braces(s)
        t1 == <<"whole">>
        t2 == IF fenced.found THEN Append(t1, "fenced") ELSE t1
        t3 == IF braces.found THEN Append(t2, "braces") ELSE t2
    IN  IF whole.ok THEN Returned(whole.val, t1)
        ELSE IF fenced.found /\ json_loads(fenced.group).ok
             THEN Returned(json_loads(fenced.group).val, t2)
        ELSE IF braces.found /\ json_loads(braces.group).ok
             THEN Returned(json_loads(braces.group).val, t3)
        ELSE Raised(s, t3)

NotRun == [done |-> FALSE, ok |-> FALSE, val |-> JNone, tried |-> <<>>, excerpt |-> <<>>]
Ran(r) == [done |-> TRUE, ok |-> r.ok, val |-> r.val, tried |-> r.tried, excerpt |-> r.excerpt]

ExtractIdle ==
    /\ origin = [kind |-> "none", body |-> <<>>, val |-> JNone, pre |-> <<>>, post |-> <<>>, wrap |-> "bare"]
    /\ text = <<>>
    /\ result = NotRun

(***************************************************************************)
(* The state of the store, the session and the request while a harness     *)
(* that does not use them runs. An optional value (None or a value) is a   *)
(* sequence of at most one element; an empty dict is the empty function.   *)
(***************************************************************************)
NoRequest ==
    [entry |-> "none", profile_name |-> <<>>, profile |-> <<>>, job_description |-> <<>>,
     counts |-> <<>>, chosen |-> {}, include_why |-> FALSE, include_cover_letter |-> FALSE]
NoneTailored == [jd_analysis |-> JNone, summary |-> <<>>, experience |-> <<>>, projects |-> <<>>]
NoOutcome == [kind |-> "none", status |-> 0, error |-> "", value |-> <<>>]

\* a directory that holds no document
NoFiles == [n \in {} |-> <<>>]
NoCreate == [done |-> FALSE, path |-> "", asked |-> FALSE, given |-> <<>>, profile |-> <<>>,
             replace |-> FALSE, stored |-> {}, name |-> <<>>]
NoLoad == [done |-> FALSE, manager |-> "", name |-> <<>>, status |-> "", profile |-> <<>>]
StoreIdle ==
    /\ files = NoFiles
    /\ backups = NoFiles
    /\ last_create = NoCreate
    /\ last_load = NoLoad

\* no call of create_profile is under way and no second session is open
RaceIdle ==
    /\ writers = <<>>
    /\ sessions = <<>>

\* no renderer has been handed a resume
NoResume == [k \in {} |-> <<>>]
NotExported == [f \in {} |-> <<>>]
ExportIdle ==
    /\ fonts = FALSE
    /\ export_resume = NoResume
    /\ exported = NotExported

NoAction == [handler |-> "", kind |-> ""]
EditorIdle ==
    /\ current_profile_name = <<>>
    /\ confirm_delete_navbar = FALSE
    /\ confirm_asked_for = <<>>
    /\ RaceIdle
    /\ last_action = NoAction
    /\ history_ops = 0

\* a history file holding the given entries
Written(entries) == [entries |-> entries, cut |-> FALSE]
SessionIdle ==
    /\ EditorIdle
    /\ api_key = ""
    /\ profile = <<>>
    /\ generated_resume = <<>>
    /\ resume_history = <<>>
    /\ current_resume_index = -1
    /\ history_file = Written(<<>>)
    /\ jd_input = <<>>

RequestIdle ==
    /\ pc = "off"
    /\ req = NoRequest
    /\ idx = 0
    /\ tailored = NoneTailored
    /\ calls = <<>>
    /\ outcome = NoOutcome
    /\ received = <<>>

(***************************************************************************)
(* truncate_bullets_to_25_words (src/backend/resume_generator.py:44-55).   *)
(***************************************************************************)
WordLimit == 25
Ellipsis == <<".", ".", ".">>

\* truncate_bullets_to_25_words comparing with >= instead of >
truncate_bullets_from_25_words(bs) ==
    [i \in DOMAIN bs |->
        LET words == split(bs[i])
        IN  IF Len(words) >= WordLimit
            THEN JoinWith(SubSeq(words, 1, WordLimit), <<" ">>) \o Ellipsis
            ELSE bs[i]]

truncate_bullets_to_25_words(bs) ==
    [i \in DOMAIN bs |->
        LET words == split(bs[i])
        IN  IF Len(words) > WordLimit
            THEN JoinWith(SubSeq(words, 1, WordLimit), <<" ">>) \o Ellipsis
            ELSE bs[i]]

(***************************************************************************)
(* The lists the truncation harness feeds to truncate_bullets_to_25_words: *)
(* a bullet is composed of n words, the k-th being the digits of k, with a *)
(* separator between them and whitespace around them.                      *)
(***************************************************************************)
MaxBulletWords == 27
MaxBullets == 2

WordCounts == (0..2) \cup ((WordLimit - 1)..MaxBulletWords)
Separators == {<<" ">>, <<" ", NL, " ">>}
Margins == {<<>>, <<" ">>}
BulletGens == [n : WordCounts, sep : Separators, margin : Margins]

NumberWords(n) == [k \in 1..n |-> Str(k)]
MakeBullet(g) == g.margin \o JoinWith(NumberWords(g.n), g.sep) \o g.margin

NotTruncated == [done |-> FALSE, out |-> <<>>]

TruncIdle ==
    /\ bullets = <<>>
    /\ bulletGen = <<>>
    /\ truncated = NotTruncated

InitTrunc ==
    /\ bulletGen \in UNION {[1..n -> BulletGens] : n \in 0..MaxBullets}
    /\ bullets = [i \in DOMAIN bulletGen |-> MakeBullet(bulletGen[i])]
    /\ truncated = NotTruncated
    /\ ExtractIdle /\ StoreIdle /\ SessionIdle /\ RequestIdle /\ ExportIdle

\* the call truncate_bullets_to_25_words(bullets)
Truncate ==
    /\ ~truncated.done
    /\ truncated' = [done |-> TRUE, out |-> truncate_bullets_to_25_words(bullets)]
    /\ UNCHANGED <<bullets, bulletGen>>

NextTrunc ==
    Truncate /\ UNCHANGED <<extractVars, storeVars, sessionVars, editorVars, requestVars,
                         raceVars, exportVars>>

SpecTrunc == InitTrunc /\ [][NextTrunc]_vars

(***************************************************************************)
(* The responses the extract harness feeds to extract_json_from_text: a    *)
(* body (a JSON object, another JSON value, or text that is no JSON), as   *)
(* it is, or in a fenced block, with prose before and after it.            *)
(***************************************************************************)
MaxPad == 201

TStr(s) == <<Q>> \o s \o <<Q>>
TPair(k, vt) == TStr(k) \o <<":">> \o vt
TObj(pairs) == <<"{">> \o JoinWith(pairs, <<",">>) \o <<"}">>
TArr(items) == <<"[">> \o JoinWith(items, <<",">>) \o <<"]">>

\* the dict of a sequence of <<key, value>> pairs; a later pair wins
DictOf(pairs) ==
    JObj([k \in {pairs[i][1] : i \in DOMAIN pairs} |->
            pairs[Max({i \in DOMAIN pairs : pairs[i][1] = k})][2]])

Sample(txt, val) == [txt |-> txt, val |-> val]

ObjectSamples ==
    { Sample(<<"{", "}">>, EmptyDict),
      Sample(TObj(<<TPair(<<"k">>, <<"1">>)>>), DictOf(<<<<<<"k">>, JNum(<<"1">>)>>>>)),
      Sample(<<"{", " ">> \o TStr(<<"k">>) \o <<" ", ":", NL, "[", "1", ",", " ", "2", "]", " ", "}">>,
             DictOf(<<<<<<"k">>, JArr(<<JNum(<<"1">>), JNum(<<"2">>)>>)>>>>)),
      Sample(TObj(<<TPair(<<"k">>, TObj(<<TPair(<<"j">>, TStr(<<"a">>))>>))>>),
             DictOf(<<<<<<"k">>, DictOf(<<<<<<"j">>, JStr(<<"a">>)>>>>)>>>>)),
      Sample(TObj(<<TPair(<<"k">>, TStr(<<"a", "}", "b">>))>>),
             DictOf(<<<<<<"k">>, JStr(<<"a", "}", "b">>)>>>>)),
      Sample(TObj(<<TPair(<<"k">>, TStr(Fence \o <<"{", "}">> \o Fence))>>),
             DictOf(<<<<<<"k">>, JStr(Fence \o <<"{", "}">> \o Fence)>>>>)),
      Sample(TObj(<<TPair(<<"k">>, <<"1">>), TPair(<<"k">>, <<"2">>)>>),
             DictOf(<<<<<<"k">>, JNum(<<"2">>)>>>>)) }

ValueSamples ==
    { Sample(TArr(<<<<"1">>>>), JArr(<<JNum(<<"1">>)>>)),
      Sample(<<"7">>, JNum(<<"7">>)),
      Sample(TStr(<<"a">>), JStr(<<"a">>)),
      Sample(<<"n", "u", "l", "l">>, JNone),
      Sample(TArr(<<TObj(<<TPair(<<"k">>, <<"1">>)>>)>>),
             JArr(<<DictOf(<<<<<<"k">>, JNum(<<"1">>)>>>>)>>)) }

BrokenTexts ==
    { <<>>,
      <<"x">>,
      <<"{">> \o TPair(<<"k">>, <<"1">>),
      <<"{", "k", ":", "1", "}">>,
      <<"{">> \o TPair(<<"k">>, <<"1">>) \o <<",", "}">> }

Bodies ==
    {[kind |-> "object", txt |-> b.txt, val |-> b.val] : b \in ObjectSamples}
    \cup {[kind |-> "value", txt |-> b.txt, val |-> b.val] : b \in ValueSamples}
    \cup {[kind |-> "broken", txt |-> b, val |-> JNone] : b \in BrokenTexts}

PadLens == {1} \cup ((ExcerptLen - 1)..MaxPad)
Prefixes ==
    {<<>>, <<"x", "{", "x", "}", " ">>} \cup {Rep("x", n) \o <<" ">> : n \in PadLens}
Suffixes == {<<>>, <<NL>>, <<" ", "x">>, <<" ", "x", "}">>}
Wraps == {"bare", "json", "plain", "other"}

Wrapped(w, body) ==
    CASE w = "bare" -> body
      [] w = "json" -> Fence \o JsonTag \o <<NL>> \o body \o <<NL>> \o Fence
      [] w = "plain" -> Fence \o <<NL>> \o body \o <<NL>> \o Fence
      [] w = "other" -> Fence \o <<"p", "y", NL>> \o body \o <<NL>> \o Fence

Origins ==
    {[kind |-> b.kind, body |-> b.txt, val |-> b.val, pre |-> pre, post |-> post, wrap |-> w] :
        b \in Bodies, pre \in Prefixes, post \in Suffixes, w \in Wraps}

Compose(o) == o.pre \o Wrapped(o.wrap, o.body) \o o.post


InitExtract ==
    /\ origin \in Origins
    /\ text = Compose(origin)
    /\ result = NotRun
    /\ TruncIdle /\ StoreIdle /\ SessionIdle /\ RequestIdle /\ ExportIdle

\* the call extract_json_from_text(response.content[0].text)
Extract ==
    /\ ~result.done
    /\ result' = Ran(extract_json_from_text(text))
    /\ UNCHANGED <<text, origin>>

NextExtract ==
    Extract /\ UNCHANGED <<truncVars, storeVars, sessionVars, editorVars, requestVars, raceVars, exportVars>>

SpecExtract == InitExtract /\ [][NextExtract]_vars

(***************************************************************************)
(* Profiles (src/profile_manager.py and src/backend/profile_manager.py,    *)
(* which declare the same models). A Python str is JStr of its characters, *)
(* a list JArr of its items and None JNone; a model object, and the dict   *)
(* model_dump() makes of it, is a record of its fields.                    *)
(***************************************************************************)
PyStr(s) == JStr(s)
PyList(items) == JArr(items)
\* not v, for a str, a list or None
Falsy(v) == v = JNone \/ Content(v) = <<>>

\* d.get(k, default), for a dict with str keys
Get(d, k, default) == IF k \in DOMAIN d THEN d[k] ELSE default

\* Education(**d): the required fields must be there, the others default
EducationRequired == {"degree", "institution", "start_date", "end_date"}
Education(d) ==
    [degree |-> d.degree, institution |-> d.institution,
     location |-> Get(d, "location", PyStr(<<>>)),
     start_date |-> d.start_date, end_date |-> d.end_date,
     gpa |-> Get(d, "gpa", JNone),
     relevant_coursework |-> Get(d, "relevant_coursework", PyList(<<>>)),
     achievements |-> Get(d, "achievements", PyList(<<>>))]

\* Experience(**d)
ExperienceRequired == {"title", "company", "start_date", "end_date", "description"}
Experience(d) ==
    [title |-> d.title, company |-> d.company,
     location |-> Get(d, "location", PyStr(<<>>)),
     start_date |-> d.start_date, end_date |-> d.end_date,
     description |-> d.description,
     skills_used |-> Get(d, "skills_used", PyList(<<>>))]

\* Project(**d)
ProjectRequired == {"name", "description", "technologies", "achievements"}
Project(d) ==
    [name |-> d.name, description |-> d.description, technologies |-> d.technologies,
     achievements |-> d.achievements, url |-> Get(d, "url", JNone)]

DefaultPersonalInfo ==
    [name |-> PyStr(<<>>), email |-> PyStr(<<>>), phone |-> PyStr(<<>>), linkedin |-> PyStr(<<>>),
     github |-> PyStr(<<>>), portfolio |-> PyStr(<<>>), location |-> PyStr(<<>>)]
DefaultSkills == [technical |-> PyList(<<>>), languages |-> PyList(<<>>),
                  tools |-> PyList(<<>>), soft_skills |-> PyList(<<>>)]

\* whether UserProfile(**data) validates
ValidProfileData(data) ==
    /\ \A i \in DOMAIN Get(data, "education", <<>>) :
            EducationRequired \subseteq DOMAIN data.education[i]
    /\ \A i \in DOMAIN Get(data, "experience", <<>>) :
            ExperienceRequired \subseteq DOMAIN data.experience[i]
    /\ \A i \in DOMAIN Get(data, "projects", <<>>) :
            ProjectRequired \subseteq DOMAIN data.projects[i]

\* UserProfile(**data)
UserProfile(data) ==
    [personal_info |-> Get(data, "personal_info", DefaultPersonalInfo),
     summary |-> Get(data, "summary", PyStr(<<>>)),
     my_story |-> Get(data, "my_story", PyStr(<<>>)),
     education |-> [i \in DOMAIN Get(data, "education", <<>>) |-> Education(data.education[i])],
     experience |-> [i \in DOMAIN Get(data, "experience", <<>>) |-> Experience(data.experience[i])],
     projects |-> [i \in DOMAIN Get(data, "projects", <<>>) |-> Project(data.projects[i])],
     skills |-> Get(data, "skills", DefaultSkills),
     certifications |-> Get(data, "certifications", PyList(<<>>)),
     awards |-> Get(data, "awards", PyList(<<>>))]

\* model.model_dump(), for an entry of a list of models: the dict of its fields
entry_dump(e) == [k \in DOMAIN e |-> e[k]]

\* profile.model_dump()
model_dump(p) ==
    [personal_info |-> p.personal_info, summary |-> p.summary, my_story |-> p.my_story,
     education |-> [i \in DOMAIN p.education |-> entry_dump(p.education[i])],
     experience |-> [i \in DOMAIN p.experience |-> entry_dump(p.experience[i])],
     projects |-> [i \in DOMAIN p.projects |-> entry_dump(p.projects[i])],
     skills |-> p.skills, certifications |-> p.certifications, awards |-> p.awards]

\* keys of the responses and of the profile documents
kBullets == <<"b", "u", "l", "l", "e", "t", "s">>
kSkills == <<"s", "k", "i", "l", "l", "s">>
kDescription == <<"d", "e", "s", "c", "r", "i", "p", "t", "i", "o", "n">>
kTechnologies == <<"t", "e", "c", "h", "n", "o", "l", "o", "g", "i", "e", "s">>
kAchievements == <<"a", "c", "h", "i", "e", "v", "e", "m", "e", "n", "t", "s">>
kTechnical == <<"t", "e", "c", "h", "n", "i", "c", "a", "l">>
kLanguages == <<"l", "a", "n", "g", "u", "a", "g", "e", "s">>
kTools == <<"t", "o", "o", "l", "s">>
kRequiredSkills == <<"r", "e", "q", "u", "i", "r", "e", "d", "_", "s", "k", "i", "l", "l", "s">>
kResponsibilities == <<"r", "e", "s", "p", "o", "n", "s", "i", "b", "i", "l", "i", "t", "i", "e", "s">>
kCultureKeywords == <<"c", "u", "l", "t", "u", "r", "e", "_", "k", "e", "y", "w", "o", "r", "d", "s">>
kSoftSkills == <<"s", "o", "f", "t", "_", "s", "k", "i", "l", "l", "s">>
kWhy == <<"w", "h", "y", "_", "y", "o", "u", "_", "w", "a", "n", "t", "_", "t", "o", "_",
          "w", "o", "r", "k", "_", "h", "e", "r", "e">>
kCoverLetter == <<"c", "o", "v", "e", "r", "_", "l", "e", "t", "t", "e", "r">>

(***************************************************************************)
(* The profile documents: json.dump(profile.model_dump(), f, indent=2)     *)
(* writes the text of a file, json.load(f) reads the dict back. The texts  *)
(* hold no quote, backslash or control character inside a string.          *)
(***************************************************************************)
\* the characters of the keys of a profile document
KeyChars ==
    [personal_info |-> <<"p", "e", "r", "s", "o", "n", "a", "l", "_", "i", "n", "f", "o">>,
     summary |-> <<"s", "u", "m", "m", "a", "r", "y">>,
     my_story |-> <<"m", "y", "_", "s", "t", "o", "r", "y">>,
     education |-> <<"e", "d", "u", "c", "a", "t", "i", "o", "n">>,
     experience |-> <<"e", "x", "p", "e", "r", "i", "e", "n", "c", "e">>,
     projects |-> <<"p", "r", "o", "j", "e", "c", "t", "s">>,
     skills |-> kSkills,
     certifications |-> <<"c", "e", "r", "t", "i", "f", "i", "c", "a", "t", "i", "o", "n", "s">>,
     awards |-> <<"a", "w", "a", "r", "d", "s">>,
     name |-> <<"n", "a", "m", "e">>,
     email |-> <<"e", "m", "a", "i", "l">>,
     phone |-> <<"p", "h", "o", "n", "e">>,
     linkedin |-> <<"l", "i", "n", "k", "e", "d", "i", "n">>,
     github |-> <<"g", "i", "t", "h", "u", "b">>,
     portfolio |-> <<"p", "o", "r", "t", "f", "o", "l", "i", "o">>,
     location |-> <<"l", "o", "c", "a", "t", "i", "o", "n">>,
     technical |-> kTechnical,
     languages |-> kLanguages,
     tools |-> kTools,
     soft_skills |-> kSoftSkills,
     degree |-> <<"d", "e", "g", "r", "e", "e">>,
     institution |-> <<"i", "n", "s", "t", "i", "t", "u", "t", "i", "o", "n">>,
     start_date |-> <<"s", "t", "a", "r", "t", "_", "d", "a", "t", "e">>,
     end_date |-> <<"e", "n", "d", "_", "d", "a", "t", "e">>,
     gpa |-> <<"g", "p", "a">>,
     relevant_coursework |-> <<"r", "e", "l", "e", "v", "a", "n", "t", "_",
                               "c", "o", "u", "r", "s", "e", "w", "o", "r", "k">>,
     achievements |-> kAchievements,
     title |-> <<"t", "i", "t", "l", "e">>,
     company |-> <<"c", "o", "m", "p", "a", "n", "y">>,
     description |-> kDescription,
     skills_used |-> <<"s", "k", "i", "l", "l", "s", "_", "u", "s", "e", "d">>,
     technologies |-> kTechnologies,
     url |-> <<"u", "r", "l">>,
     graduation_date |-> <<"g", "r", "a", "d", "u", "a", "t", "i", "o", "n", "_", "d", "a", "t", "e">>]

\* the order in which model_dump() lists the fields of each model
ProfileOrder == <<"personal_info", "summary", "my_story", "education", "experience",
                  "projects", "skills", "certifications", "awards">>
PersonalInfoOrder == <<"name", "email", "phone", "linkedin", "github", "portfolio", "location">>
SkillsOrder == <<"technical", "languages", "tools", "soft_skills">>
EducationOrder == <<"degree", "institution", "location", "start_date", "end_date", "gpa",
                    "relevant_coursework", "achievements", "graduation_date">>
ExperienceOrder == <<"title", "company", "location", "start_date", "end_date",
                     "description", "skills_used">>
ProjectOrder == <<"name", "description", "technologies", "achievements", "url">>

Indent(level) == Rep(" ", 2 * level)
\* dump_items writing the items last to first
dump_items_reversed(open, close, items, level) ==
    IF items = <<>> THEN <<open, close>>
    ELSE <<open, NL>>
         \o JoinWith([i \in DOMAIN items |-> Indent(level + 1) \o items[Len(items) + 1 - i]],
                     <<",", NL>>)
         \o <<NL>> \o Indent(level) \o <<close>>
\* a list or a dict of the given item texts, written at the given depth
dump_items(open, close, items, level) ==
    IF items = <<>> THEN <<open, close>>
    ELSE <<open, NL>>
         \o JoinWith([i \in DOMAIN items |-> Indent(level + 1) \o items[i]], <<",", NL>>)
         \o <<NL>> \o Indent(level) \o <<close>>

\* a str, or null for None
dump_str(v) == IF v = JNone THEN Content(JNone) ELSE TStr(Content(v))
\* a list of str
dump_list(v, level) ==
    dump_items("[", "]", [i \in DOMAIN Content(v) |-> dump_str(Content(v)[i])], level)
\* a str or a list of str
dump_leaf(v, level) == IF TypeOf(v) = "arr" THEN dump_list(v, level) ELSE dump_str(v)

\* the fields of d, in the order given
present(d, order) == SelectSeq(order, LAMBDA k : k \in DOMAIN d)
dump_member(k, txt) == TStr(KeyChars[k]) \o <<":", " ">> \o txt
\* a dict whose values are str or lists of str
dump_flat(d, order, level) ==
    dump_items("{", "}",
               [i \in DOMAIN present(d, order) |->
                    dump_member(present(d, order)[i], dump_leaf(d[present(d, order)[i]], level + 1))],
               level)
\* a list of such dicts
dump_entries(entries, order, level) ==
    dump_items("[", "]", [i \in DOMAIN entries |-> dump_flat(entries[i], order, level + 1)], level)

\* json.dump(data, f, indent=2), for the dict of a profile
json_dump(data) ==
    dump_items("{", "}",
        [i \in DOMAIN present(data, ProfileOrder) |->
            LET k == present(data, ProfileOrder)[i]
            IN  dump_member(k,
                    CASE k = "personal_info" -> dump_flat(data[k], PersonalInfoOrder, 1)
                      [] k = "skills" -> dump_flat(data[k], SkillsOrder, 1)
                      [] k = "education" -> dump_entries(data[k], EducationOrder, 1)
                      [] k = "experience" -> dump_entries(data[k], ExperienceOrder, 1)
                      [] k = "projects" -> dump_entries(data[k], ProjectOrder, 1)
                      [] OTHER -> dump_leaf(data[k], 1))],
        0)

\* the dict json.load makes of an object, by the names of its keys
dict_of(obj) ==
    [k \in {n \in DOMAIN KeyChars : KeyChars[n] \in DOMAIN Content(obj)} |->
        Content(obj)[KeyChars[k]]]
\* json.load(f), for the text of a profile document
json_load(doc) ==
    LET top == dict_of(json_loads(doc).val)
    IN  [k \in DOMAIN top |->
            IF k \in {"education", "experience", "projects"}
            THEN [i \in DOMAIN Content(top[k]) |-> dict_of(Content(top[k])[i])]
            ELSE IF k \in {"personal_info", "skills"} THEN dict_of(top[k])
            ELSE top[k]]

(***************************************************************************)
(* The profile store: create_profile and load_profile of                   *)
(* src/profile_manager.py, and load_profile of                             *)
(* src/backend/profile_manager.py, which also reads the backup directory.  *)
(* fs and bk map the stem of each file of a directory to its document.     *)
(***************************************************************************)
NotDot(c) == c # "."
\* profile_name.strip(), then ' '.join(name.split()), then name.replace('.', '')
clean_name(n) == SelectSeq(JoinWith(split(strip(n)), <<" ">>), NotDot)

versioned_name(c, version) == c \o <<"_", "v">> \o Str(version)
\* the version the loop of create_profile stops at: the first one from 2 that is free
free_version(fs, c) ==
    Min({k \in 2..(Cardinality(DOMAIN fs) + 2) : versioned_name(c, k) \notin DOMAIN fs})

\* the name of a save that never versions
saved_name_overwriting(fs, n, replace) == clean_name(n)
\* the name create_profile(n, p, replace) saves under
saved_name(fs, n, replace) ==
    LET c == clean_name(n)
    IN  IF c \in DOMAIN fs /\ ~replace THEN versioned_name(c, free_version(fs, c)) ELSE c

\* create_profile(n, p, replace): the directory afterwards and the name returned
create_profile(fs, n, p, replace) ==
    LET name == saved_name(fs, n, replace)
    IN  [files |-> [s \in (DOMAIN fs) \cup {name} |->
                        IF s = name THEN json_dump(model_dump(p)) ELSE fs[s]],
         name |-> name]

DigitValue(c) == CHOOSE d \in 0..9 : DigitSeq[d + 1] = c
IsDigits(s) == s # <<>> /\ \A i \in 1..Len(s) : s[i] \in Digits
\* int(s), for a str of digits
RECURSIVE ToInt(_)
ToInt(s) == IF s = <<>> THEN 0 ELSE 10 * ToInt(SubSeq(s, 1, Len(s) - 1)) + DigitValue(s[Len(s)])
\* str(n), for any int
IntStr(n) == IF n < 0 THEN <<"-">> \o Str(0 - n) ELSE Str(n)
\* whether int(s) evaluates, for a str of ASCII digits and signs, and its value
int_parses(s) == IsDigits(IF s # <<>> /\ s[1] \in {"+", "-"} THEN Tail(s) ELSE s)
int_of(s) == IF s[1] = "-" THEN 0 - ToInt(Tail(s)) ELSE IF s[1] = "+" THEN ToInt(Tail(s)) ELSE ToInt(s)

FallbackStart == <<"S", "e", "p", " ", "2", "0", "2", "0">>
YearsOfStudy == 4

\* the migration load_profile applies to one education dict
migrate_education(edu) ==
    IF "graduation_date" \in DOMAIN edu /\ "start_date" \notin DOMAIN edu
    THEN LET grad_date == edu.graduation_date
             parts == IF Falsy(grad_date) THEN <<>> ELSE split(Content(grad_date))
             start == IF int_parses(parts[2])
                      THEN parts[1] \o <<" ">> \o IntStr(int_of(parts[2]) - YearsOfStudy)
                      ELSE FallbackStart
         IN  IF Len(parts) = 2
             THEN [k \in ((DOMAIN edu) \ {"graduation_date"}) \cup {"start_date", "end_date"} |->
                      IF k = "start_date" THEN PyStr(start)
                      ELSE IF k = "end_date" THEN grad_date
                      ELSE edu[k]]
             ELSE edu
    ELSE edu

\* the data load_profile hands to UserProfile
migrate(data) ==
    IF "education" \in DOMAIN data
    THEN [data EXCEPT !.education = [i \in DOMAIN @ |-> migrate_education(@[i])]]
    ELSE data

NotFound == [status |-> "not_found", profile |-> <<>>]
\* what reading a document gives: the profile, or pydantic's validation error
Loaded(doc) ==
    LET data == migrate(json_load(doc))
    IN  IF ValidProfileData(data) THEN [status |-> "ok", profile |-> <<UserProfile(data)>>]
        ELSE [status |-> "invalid", profile |-> <<>>]

\* load_profile(n) of src/profile_manager.py
load_profile(fs, n) == IF n \in DOMAIN fs THEN Loaded(fs[n]) ELSE NotFound

\* the backend's load_profile reading the profiles directory alone
backend_load_profile_no_backup(fs, bk, n) == load_profile(fs, n)
\* load_profile(n) of src/backend/profile_manager.py
\* it reads the backup directory when the profiles directory has no such file
backend_load_profile(fs, bk, n) ==
    LET dir == IF n \in DOMAIN fs THEN fs ELSE bk
    IN  load_profile(dir, n)

(***************************************************************************)
(* The tailoring steps of ResumeGenerator                                  *)
(* (src/backend/resume_generator.py:205-577), each on the value            *)
(* extract_json_from_text made of the service's response.                  *)
(***************************************************************************)
\* result.get(k, default), for a dict the parser returned
DictGet(d, k, default) == IF HasKey(d, k) THEN Content(d)[k] ELSE default

IsStrList(v) == TypeOf(v) = "arr" /\ \A i \in DOMAIN Content(v) : TypeOf(Content(v)[i]) = "str"

\* whether ', '.join(v) and ', '.join(v[:n]) evaluate: v is a str or a list of str
Joinable(v) == TypeOf(v) = "str" \/ IsStrList(v)
\* whether a prompt that joins jd_analysis.get(k, []) for each k of keys can be built
PromptBuilds(jd_analysis, keys) ==
    /\ IsDict(jd_analysis)
    /\ \A k \in keys : HasKey(jd_analysis, k) => Joinable(Content(jd_analysis)[k])

SummaryKeys == {kRequiredSkills, kResponsibilities, kCultureKeywords}
ExperienceKeys == {kRequiredSkills, kResponsibilities, kSoftSkills}
ProjectKeys == {kRequiredSkills, kResponsibilities}
SkillsKeys == {kRequiredSkills, kResponsibilities, kCultureKeywords}

\* truncate_bullets_to_25_words(v) for a value of a response: it returns for a
\* list of str and for a str (whose characters it takes for the bullets), and
\* raises for a number, a literal and a list that holds anything but str.
\* No response of this model holds an object where a list is expected.
Truncates(v) == TypeOf(v) = "str" \/ IsStrList(v)
truncate_value(v) ==
    LET bs == IF TypeOf(v) = "str" THEN [i \in DOMAIN Content(v) |-> <<Content(v)[i]>>]
              ELSE [i \in DOMAIN Content(v) |-> Content(Content(v)[i])]
        out == truncate_bullets_to_25_words(bs)
    IN  PyList([i \in DOMAIN out |-> PyStr(out[i])])

\* desired_bullets of _tailor_experiences, for the experience at index i (from 0)
DefaultBullets == 4
desired_bullets(counts, i) ==
    IF counts # <<>> THEN (IF i \in DOMAIN counts THEN counts[i] ELSE DefaultBullets)
    ELSE DefaultBullets

has_skills(exp) == ~Falsy(exp.skills_used)

\* whether the code after the experience call raises on the parsed response
experience_raises(response) ==
    \/ ~IsDict(response)
    \/ HasKey(response, kBullets) /\ ~Truncates(Content(response)[kBullets])

\* tailored_experience taking the skills of the response whatever the entry declares
tailored_experience_any_skills(exp, response) ==
    LET res == IF HasKey(response, kBullets)
               THEN DictSet(response, kBullets, truncate_value(Content(response)[kBullets]))
               ELSE response
    IN  [title |-> exp.title, company |-> exp.company, location |-> exp.location,
         start_date |-> exp.start_date, end_date |-> exp.end_date,
         description |-> DictGet(res, kBullets, exp.description),
         skills_used |-> DictGet(res, kSkills, exp.skills_used)]

\* the entry _tailor_experiences appends for exp
tailored_experience(exp, response) ==
    LET res == IF HasKey(response, kBullets)
               THEN DictSet(response, kBullets, truncate_value(Content(response)[kBullets]))
               ELSE response
    IN  [title |-> exp.title, company |-> exp.company, location |-> exp.location,
         start_date |-> exp.start_date, end_date |-> exp.end_date,
         description |-> DictGet(res, kBullets, exp.description),
         skills_used |-> IF ~has_skills(exp) THEN DictGet(res, kSkills, exp.skills_used)
                         ELSE exp.skills_used]

Placeholder ==
    <<"P", "r", "o", "j", "e", "c", "t", " ", "d", "e", "t", "a", "i", "l", "s", " ",
      "t", "o", " ", "b", "e", " ", "g", "e", "n", "e", "r", "a", "t", "e", "d">>
KeptProjects == 3
\* kept_projects keeping every project
kept_projects_all(p) == p.projects

\* profile.projects[:3]
kept_projects(p) == SubSeq(p.projects, 1, Min({KeptProjects, Len(p.projects)}))

needs_generation(project) ==
    \/ Falsy(project.technologies)
    \/ Content(project.description) \in {Placeholder, <<>>}

project_raises(response) ==
    \/ ~IsDict(response)
    \/ HasKey(response, kAchievements) /\ ~Truncates(Content(response)[kAchievements])

\* the entry _tailor_projects appends for a project it regenerates
generated_project(project, response) ==
    LET res == IF HasKey(response, kAchievements)
               THEN DictSet(response, kAchievements,
                            truncate_value(Content(response)[kAchievements]))
               ELSE response
    IN  [name |-> project.name,
         description |-> DictGet(res, kDescription, project.description),
         technologies |-> DictGet(res, kTechnologies, project.technologies),
         achievements |-> DictGet(res, kAchievements, project.achievements),
         url |-> project.url]

\* the entry _tailor_projects appends for a project it keeps as it is
existing_project(project) ==
    LET project_data == entry_dump(project)
    IN  IF ~Falsy(project_data.achievements)
        THEN [project_data EXCEPT !.achievements = truncate_value(@)]
        ELSE project_data

\* _tailor_projects from the k-th kept project on, up to the next project that
\* needs a generation call (next, 0 when there is none)
RECURSIVE tailor_projects_from(_, _, _)
tailor_projects_from(kept, k, done) ==
    IF k > Len(kept) THEN [projects |-> done, next |-> 0]
    ELSE IF needs_generation(kept[k]) THEN [projects |-> done, next |-> k]
    ELSE tailor_projects_from(kept, k + 1, Append(done, existing_project(kept[k])))

\* what _generate_skills returns
generated_skills(response) ==
    [technical |-> DictGet(response, kTechnical, PyList(<<>>)),
     languages |-> DictGet(response, kLanguages, PyList(<<>>)),
     tools |-> DictGet(response, kTools, PyList(<<>>))]

\* what generate_tailored_resume returns
tailored_resume(p, t, skills) ==
    [personal_info |-> p.personal_info, summary |-> t.summary,
     experience |-> t.experience, projects |-> t.projects,
     education |-> [i \in DOMAIN p.education |-> entry_dump(p.education[i])],
     skills |-> skills, certifications |-> p.certifications, awards |-> p.awards,
     jd_analysis |-> t.jd_analysis]

(***************************************************************************)
(* The profiles, job descriptions and service responses the requests are   *)
(* drawn from.                                                             *)
(***************************************************************************)
Words(n) == JoinWith(NumberWords(n), <<" ">>)
LongBullet == Words(WordLimit + 1)
DidX == <<"D", "i", "d", " ", "X">>

ExpNoSkills ==
    Experience([title |-> PyStr(<<"d", "e", "v">>), company |-> PyStr(<<"c", "o">>),
                start_date |-> PyStr(<<"1">>), end_date |-> PyStr(<<"2">>),
                description |-> PyList(<<PyStr(<<"o", "l", "d">>)>>)])
ExpWithSkills ==
    Experience([title |-> PyStr(<<"o", "p", "s">>), company |-> PyStr(<<"c", "o">>),
                start_date |-> PyStr(<<"2">>), end_date |-> PyStr(<<"3">>),
                description |-> PyList(<<PyStr(LongBullet)>>),
                skills_used |-> PyList(<<PyStr(<<"p", "y">>)>>)])

Proj(name, description, technologies, achievements) ==
    Project([name |-> PyStr(name), description |-> PyStr(description),
             technologies |-> PyList(technologies), achievements |-> PyList(achievements)])
ProjNoTech == Proj(<<"n", "t">>, <<"d">>, <<>>, <<PyStr(<<"w", "o", "n">>)>>)
ProjPlaceholder == Proj(<<"p", "h">>, Placeholder, <<PyStr(<<"g", "o">>)>>, <<>>)
ProjEmptyDesc == Proj(<<"e", "d">>, <<>>, <<PyStr(<<"g", "o">>)>>, <<>>)
ProjComplete == Proj(<<"c", "p">>, <<"d">>, <<PyStr(<<"g", "o">>)>>, <<PyStr(LongBullet), PyStr(DidX)>>)
ProjPlain == Proj(<<"p", "l">>, <<"d">>, <<PyStr(<<"g", "o">>)>>, <<>>)

Prof(my_story, experience, projects) ==
    UserProfile([my_story |-> PyStr(my_story), experience |-> experience, projects |-> projects])

Profiles ==
    { Prof(<<>>, <<>>, <<>>),
      Prof(<<"s", "t">>, <<ExpNoSkills>>, <<ProjComplete, ProjNoTech, ProjPlaceholder, ProjEmptyDesc>>),
      Prof(<<" ">>, <<ExpWithSkills, ExpNoSkills>>, <<ProjEmptyDesc, ProjPlain>>),
      Prof(<<"s", "t">>, <<ExpWithSkills>>, <<ProjPlain, ProjComplete, ProjPlain, ProjNoTech>>) }

JobDescriptions == {<<>>, <<" ">>, <<"j", "d">>}
StoredName == <<"a">>
ProfileNames == {StoredName, <<"b">>}
SavedKey == "sk"

\* a response of the generation service: the call raised, or returned this text
Said(txt) == [raised |-> FALSE, text |-> txt]
CallFailed == [raised |-> TRUE, text |-> <<>>]
Garbage == Said(<<"o", "o", "p", "s">>)
NotADict == Said(TArr(<<<<"1">>>>))
EmptyObject == Said(<<"{", "}">>)

AnalysisResponses ==
    { Said(Wrapped("json", TObj(<<TPair(kRequiredSkills, TArr(<<TStr(<<"g", "o">>)>>))>>))),
      Said(TObj(<<TPair(kSoftSkills, <<"7">>)>>)),
      NotADict, Garbage, CallFailed }

SummaryResponses == {Said(<<" ", "s", "u", "m", NL>>), CallFailed}

ExperienceResponses ==
    { Said(TObj(<<TPair(kSkills, TArr(<<TStr(<<"a">>), TStr(<<"b">>)>>)),
                  TPair(kBullets, TArr(<<TStr(DidX)>>))>>)),
      Said(<<"o", "k", " ">> \o
           Wrapped("plain", TObj(<<TPair(kBullets, TArr(<<TStr(LongBullet), TStr(DidX)>>))>>))),
      EmptyObject,
      Said(TObj(<<TPair(kBullets, TArr(<<<<"1">>>>))>>)),
      NotADict, Garbage, CallFailed }

ProjectResponses ==
    { Said(TObj(<<TPair(kDescription, TStr(<<"n", "e", "w">>)),
                  TPair(kTechnologies, TArr(<<TStr(<<"t">>)>>)),
                  TPair(kAchievements, TArr(<<TStr(LongBullet)>>))>>)),
      EmptyObject, Garbage, CallFailed }

SkillsResponses ==
    { Said(TObj(<<TPair(kTechnical, TArr(<<TStr(<<"g", "o">>)>>))>>)),
      NotADict, Garbage, CallFailed }

StoryResponses ==
    { Said(TObj(<<TPair(kWhy, TStr(<<" ", "w", " ">>)), TPair(kCoverLetter, TStr(<<"c">>))>>)),
      EmptyObject, Garbage, CallFailed }

(***************************************************************************)
(* A request: the Generate button of the interactive session               *)
(* (src/app.py:1288-1411) or POST /api/generate-resume                     *)
(* (src/backend/main.py:161-188) runs generate_tailored_resume             *)
(* (src/backend/resume_generator.py:70-117). One action starts the request *)
(* and runs it up to its first generation call; one action per call takes  *)
(* the service's response and runs the code up to the next call or to the  *)
(* end of the request.                                                     *)
(***************************************************************************)
Steps == <<"analysis", "summary", "experience", "project", "skills">>

\* the profile the request runs on
ReqProfile == req.profile[1]

Error(status, err) == [kind |-> "error", status |-> status, error |-> err, value |-> <<>>]
Success(status, v) == [kind |-> "ok", status |-> status, error |-> "", value |-> <<v>>]

\* Abort handing back what was tailored so far instead of reporting the exception
Abort_partial(err) ==
    /\ pc' = "done"
    /\ outcome' = Success(IF req.entry = "http" THEN 200 ELSE 0, tailored)
    /\ UNCHANGED <<req, idx, tailored, calls, sessionVars, storeVars>>

\* The entry point reports an exception of the pipeline: st.error in the session
\* (app.py:1409-1411), status 500 from the endpoint (main.py:187-188).
Abort(err) ==
    /\ pc' = "failed"
    /\ outcome' = Error(IF req.entry = "http" THEN 500 ELSE 0, err)
    /\ UNCHANGED <<req, idx, tailored, calls, sessionVars, storeVars>>

\* the keys of jd_analysis the prompt of a step joins
KeysOf(step) ==
    CASE step = "summary" -> SummaryKeys
      [] step = "experience" -> ExperienceKeys
      [] step = "project" -> ProjectKeys
      [] step = "skills" -> SkillsKeys

\* the call client.messages.create of a step, as the service sees it
Call(step, k) ==
    [step |-> step, index |-> k,
     bullets |-> IF step = "experience" THEN desired_bullets(req.counts, k - 1) ELSE 0]

\* The code builds the prompt of the step and issues its call; building raises
\* when jd_analysis is not what the prompt expects.
Continue(step, k, t) ==
    IF PromptBuilds(t.jd_analysis, KeysOf(step))
    THEN /\ pc' = step
         /\ idx' = k
         /\ tailored' = t
         /\ calls' = Append(calls, Call(step, k))
         /\ UNCHANGED <<req, outcome, sessionVars, storeVars>>
    ELSE Abort("prompt")

\* _tailor_projects from the k-th kept project, then _generate_skills
ProjectsFrom(t, k) ==
    LET r == tailor_projects_from(kept_projects(ReqProfile), k, t.projects)
        t2 == [t EXCEPT !.projects = r.projects]
    IN  IF r.next = 0 THEN Continue("skills", 0, t2) ELSE Continue("project", r.next, t2)

\* ExperiencesFrom leaving the last experience out
ExperiencesFrom_short(t, k) ==
    IF k < Len(ReqProfile.experience) THEN Continue("experience", k, t)
    ELSE ProjectsFrom(t, 1)

\* _tailor_experiences from the k-th experience, then _tailor_projects
ExperiencesFrom(t, k) ==
    IF k <= Len(ReqProfile.experience) THEN Continue("experience", k, t)
    ELSE ProjectsFrom(t, 1)

\* generate_tailored_resume is entered: the analysis call is issued first
Start(r) ==
    /\ req' = r
    /\ pc' = "analysis"
    /\ calls' = <<[step |-> "analysis", index |-> 0, bullets |-> 0]>>
    /\ UNCHANGED <<idx, tailored, outcome, sessionVars, storeVars>>

\* the entry point refuses the request before generate_tailored_resume runs
Refuse(r, status, err) ==
    /\ req' = r
    /\ pc' = "refused"
    /\ outcome' = Error(status, err)
    /\ UNCHANGED <<idx, tailored, calls, sessionVars, storeVars>>

\* the selectbox of an experience: its options and the index it shows at first
BulletOptions == <<2, 3, 4, 5, 6>>
DefaultIndex == 3
\* st.selectbox(options, index): the option the user chose, or the one at the index
selectbox(choice) == IF choice = <<>> THEN BulletOptions[DefaultIndex + 1] ELSE choice[1]
\* what the user did with the selectbox of an experience: nothing, or a choice
UIBulletChoices == {<<>>, <<2>>}
UIChoices == IF profile = <<>> THEN {<<>>}
             ELSE [0..(Len(profile[1].experience) - 1) -> UIBulletChoices]
\* the bullet counts the session holds: the value of every selectbox shown
UICounts(choices) == [i \in DOMAIN choices |-> selectbox(choices[i])]
\* the bullet counts a client may post
HTTPCounts == {<<>>, [i \in {0} |-> 7]}

\* The Generate button. The page shows it only when a key is saved.
UIGenerate ==
    /\ pc = "idle"
    /\ UNCHANGED received
    /\ api_key # ""
    /\ \E jd \in JobDescriptions, choices \in UIChoices :
        LET r == [NoRequest EXCEPT !.entry = "ui", !.profile = profile,
                                   !.job_description = jd, !.counts = UICounts(choices),
                                   !.chosen = {i \in DOMAIN choices : choices[i] # <<>>}]
        IN  IF profile = <<>> \/ jd = <<>> THEN Refuse(r, 0, "input")
            ELSE Start(r)

\* The status a handler answers when its try block raises HTTPException with
\* the given status and its clauses are "except Exception" alone, or that
\* after "except FileNotFoundError": HTTPException is an Exception, the clause
\* catches it and raises HTTPException(status_code=500).
except_Exception(status) == 500

\* POST /api/generate-resume. Every exception but FileNotFoundError, the
\* HTTPException for the missing key included, is answered with status 500.
HTTPGenerate ==
    /\ pc = "idle"
    /\ UNCHANGED received
    /\ \E name \in ProfileNames :
        \E found \in {backend_load_profile(files, backups, name)} :
        \E jd \in JobDescriptions, counts \in HTTPCounts :
        LET r == [NoRequest EXCEPT !.entry = "http", !.profile_name = name,
                                   !.profile = found.profile,
                                   !.job_description = jd, !.counts = counts,
                                   !.chosen = DOMAIN counts]
        IN  IF api_key = ""
            THEN Refuse([r EXCEPT !.profile = <<>>], except_Exception(400), "key")
            ELSE IF found.status = "not_found" THEN Refuse(r, 404, "profile")
            ELSE IF found.status = "invalid" THEN Refuse(r, 500, "profile")
            ELSE Start(r)

\* DELETE /api/profiles/{profile_name}: the file is unlinked when it exists;
\* when it does not, HTTPException(404) is raised inside the try block.
HTTPDelete ==
    /\ pc = "idle"
    /\ \E name \in ProfileNames :
        /\ req' = [NoRequest EXCEPT !.entry = "http_delete", !.profile_name = name]
        /\ IF name \in DOMAIN files
           THEN /\ files' = [s \in (DOMAIN files) \ {name} |-> files[s]]
                /\ pc' = "deleted"
                /\ outcome' = [kind |-> "ok", status |-> 200, error |-> "", value |-> <<>>]
           ELSE /\ files' = files
                /\ pc' = "refused"
                /\ outcome' = Error(except_Exception(404), "profile")
    /\ UNCHANGED <<idx, tailored, calls, received, sessionVars, backups, last_create, last_load>>

\* _analyze_job_description gets its response; _generate_summary builds its prompt
AnalysisReturns ==
    /\ pc = "analysis"
    /\ \E r \in AnalysisResponses :
        /\ received' = Append(received, r)
        /\ \E parsed \in {extract_json_from_text(r.text)} :
               IF r.raised THEN Abort("service")
               ELSE IF ~parsed.ok THEN Abort("parse")
               ELSE Continue("summary", 0, [tailored EXCEPT !.jd_analysis = parsed.val])

\* _generate_summary gets its response, which it strips and does not parse
SummaryReturns ==
    /\ pc = "summary"
    /\ \E r \in SummaryResponses :
        /\ received' = Append(received, r)
        /\ IF r.raised THEN Abort("service")
           ELSE ExperiencesFrom([tailored EXCEPT !.summary = PyStr(strip(r.text))], 1)

\* _tailor_experiences gets the response for the experience at idx
ExperienceReturns ==
    /\ pc = "experience"
    /\ \E r \in ExperienceResponses :
        /\ received' = Append(received, r)
        /\ \E parsed \in {extract_json_from_text(r.text)} :
           LET exp == ReqProfile.experience[idx]
           IN  IF r.raised THEN Abort("service")
               ELSE IF ~parsed.ok THEN Abort("parse")
               ELSE IF experience_raises(parsed.val) THEN Abort("shape")
               ELSE ExperiencesFrom(
                       [tailored EXCEPT !.experience = Append(@, tailored_experience(exp, parsed.val))],
                       idx + 1)

\* _tailor_projects gets the response for the kept project at idx
ProjectReturns ==
    /\ pc = "project"
    /\ \E r \in ProjectResponses :
        /\ received' = Append(received, r)
        /\ \E parsed \in {extract_json_from_text(r.text)} :
           LET project == kept_projects(ReqProfile)[idx]
           IN  IF r.raised THEN Abort("service")
               ELSE IF ~parsed.ok THEN Abort("parse")
               ELSE IF project_raises(parsed.val) THEN Abort("shape")
               ELSE ProjectsFrom(
                       [tailored EXCEPT !.projects = Append(@, generated_project(project, parsed.val))],
                       idx + 1)

\* The company and the job title the session reads off the job description
\* (app.py:1319-1398). A job description of this model holds no capital, no
\* separator and no title keyword, so that every pattern fails on it.
heuristic_labels(jd) == [company_name |-> <<>>, job_title |-> <<>>]

HistoryCap == 20
Untitled == <<"U", "n", "t", "i", "t", "l", "e", "d">>
\* the ids of the entries of a history
Ids(history) == {history[i].id : i \in DOMAIN history}
\* uuid.uuid4(): an id no entry of the history carries
fresh_id(history) == 1 + Max({0} \cup {history[i].id : i \in DOMAIN history})

\* add_to_history keeping every entry
add_to_history_uncapped(history, resume_data, jd, company_name, job_title) ==
    <<[id |-> fresh_id(history), timestamp |-> "now",
       job_description |-> PyStr(jd), resume |-> resume_data,
       job_title |-> PyStr(IF job_title = <<>> THEN Untitled ELSE job_title),
       company |-> PyStr(company_name)]>> \o history
\* the history after add_to_history(resume_data, job_description, company_name, job_title)
add_to_history(history, resume_data, jd, company_name, job_title) ==
    LET entry == [id |-> fresh_id(history), timestamp |-> "now",
                  job_description |-> PyStr(jd), resume |-> resume_data,
                  job_title |-> PyStr(IF job_title = <<>> THEN Untitled ELSE job_title),
                  company |-> PyStr(company_name)]
        inserted == <<entry>> \o history
    IN  SubSeq(inserted, 1, Min({HistoryCap, Len(inserted)}))

\* What save_resume_history leaves in the history file. The history goes to
\* a temporary file that then replaces the file; when that raises, the file is
\* opened for writing, which cuts it to nothing, and [] is written: the open
\* may raise too, and so may the write after it.
Disk == {"ok", "fallback", "fallback_open_fails", "fallback_write_fails"}
\* save_resume_history keeping the entries of the file that the session lacks
save_resume_history_merged(history, stored, disk) ==
    IF disk = "ok" /\ ~stored.cut
    THEN Written(history \o SelectSeq(stored.entries, LAMBDA e : e.id \notin Ids(history)))
    ELSE stored
save_resume_history(history, stored, disk) ==
    CASE disk = "ok" -> Written(history)
      [] disk = "fallback" -> Written(<<>>)
      [] disk = "fallback_open_fails" -> stored
      [] disk = "fallback_write_fails" -> [entries |-> <<>>, cut |-> TRUE]

\* _generate_skills gets its response and generate_tailored_resume returns: the
\* endpoint answers with the resume, the session shows it and adds it to the
\* history.
SkillsReturns ==
    /\ pc = "skills"
    /\ \E r \in SkillsResponses :
        /\ received' = Append(received, r)
        /\ \E parsed \in {extract_json_from_text(r.text)} :
               IF r.raised THEN Abort("service")
               ELSE IF ~parsed.ok THEN Abort("parse")
               ELSE IF ~IsDict(parsed.val) THEN Abort("shape")
               ELSE \E resume \in {tailored_resume(ReqProfile, tailored, generated_skills(parsed.val))} :
               IF req.entry = "http"
               THEN /\ pc' = "done"
                    /\ outcome' = Success(200, resume)
                    /\ UNCHANGED <<req, idx, tailored, calls, sessionVars, storeVars>>
               ELSE \E disk \in Disk,
                       history \in {add_to_history(resume_history, resume, req.job_description,
                                                   heuristic_labels(req.job_description).company_name,
                                                   heuristic_labels(req.job_description).job_title)} :
                    /\ pc' = "done"
                    /\ outcome' = Success(0, resume)
                    /\ generated_resume' = <<resume>>
                    /\ resume_history' = history
                    /\ current_resume_index' = 0
                    /\ jd_input' = req.job_description
                    /\ history_file' = save_resume_history(history, history_file, disk)
                    /\ UNCHANGED <<req, idx, tailored, calls, api_key, profile, storeVars>>

(***************************************************************************)
(* Story content: generate_story_content                                   *)
(* (src/backend/resume_generator.py:119-203), called directly and from the *)
(* story button of the session (src/app.py:1415-1472).                     *)
(***************************************************************************)
\* bool(v), for a value of a response
Truthy(v) ==
    CASE TypeOf(v) \in {"str", "arr"} -> Content(v) # <<>>
      [] TypeOf(v) = "obj" -> DOMAIN Content(v) # {}
      [] TypeOf(v) = "num" -> ToInt(Content(v)) # 0
      [] TypeOf(v) = "lit" -> Content(v) = <<"t", "r", "u", "e">>

\* not s or not s.strip(), for a str
BlankStr(s) == s = <<>> \/ strip(s) = <<>>

\* story_check taking a text of whitespace for a story and for a job description
story_check_unstripped(p, jd, include_why, include_cover_letter) ==
    IF ~include_why /\ ~include_cover_letter THEN "nothing"
    ELSE IF Content(p.my_story) = <<>> THEN "no_story"
    ELSE IF jd = <<>> THEN "no_jd"
    ELSE "call"

\* what generate_story_content does before it builds its prompt (lines 128-135)
story_check(p, jd, include_why, include_cover_letter) ==
    IF ~include_why /\ ~include_cover_letter THEN "nothing"
    ELSE IF BlankStr(Content(p.my_story)) THEN "no_story"
    ELSE IF BlankStr(jd) THEN "no_jd"
    ELSE "call"

\* the keys of the response generate_story_content looks up
story_keys(include_why, include_cover_letter) ==
    (IF include_why THEN {"why_you_want_to_work_here"} ELSE {})
    \cup (IF include_cover_letter THEN {"cover_letter"} ELSE {})
StoryKey(k) == IF k = "why_you_want_to_work_here" THEN kWhy ELSE kCoverLetter

\* the requested keys the response holds a true value for
story_found(response, keys) == {k \in keys : Truthy(DictGet(response, StoryKey(k), JNone))}
story_raises(response, keys) ==
    \/ ~IsDict(response)
    \/ \E k \in story_found(response, keys) : TypeOf(Content(response)[StoryKey(k)]) # "str"
\* the dict generate_story_content returns
filtered(response, keys) ==
    [k \in story_found(response, keys) |-> PyStr(strip(Content(Content(response)[StoryKey(k)])))]

\* generate_story_content is entered with request r
StoryStart(r) ==
    LET check == story_check(r.profile[1], r.job_description, r.include_why, r.include_cover_letter)
    IN  /\ req' = r
        /\ pc' = IF check = "call" THEN "story" ELSE IF check = "nothing" THEN "done" ELSE "failed"
        /\ calls' = IF check = "call" THEN <<[step |-> "story", index |-> 0, bullets |-> 0]>> ELSE <<>>
        /\ outcome' = IF check = "call" THEN outcome
                      ELSE IF check = "nothing" THEN Success(0, <<>>)
                      ELSE Error(0, check)
        /\ UNCHANGED <<idx, tailored, sessionVars, storeVars>>

\* generate_story_content called on the stored profile, by a generator that has a key
CallStory ==
    /\ pc = "idle"
    /\ UNCHANGED received
    /\ api_key # ""
    /\ \E found \in {load_profile(files, StoredName)} :
           \E jd \in JobDescriptions, include_why \in BOOLEAN, include_cover_letter \in BOOLEAN :
            StoryStart([NoRequest EXCEPT !.entry = "story", !.profile_name = StoredName,
                                         !.profile = found.profile,
                                         !.job_description = jd, !.include_why = include_why,
                                         !.include_cover_letter = include_cover_letter])

\* The story button. The page shows it only when a key is saved and the loaded
\* profile has a story.
UIStory ==
    /\ pc = "idle"
    /\ UNCHANGED received
    /\ api_key # ""
    /\ profile # <<>>
    /\ ~BlankStr(Content(profile[1].my_story))
    /\ \E jd \in JobDescriptions, include_why \in BOOLEAN, include_cover_letter \in BOOLEAN :
        LET r == [NoRequest EXCEPT !.entry = "ui_story", !.profile = profile,
                                   !.job_description = jd, !.include_why = include_why,
                                   !.include_cover_letter = include_cover_letter]
        IN  IF ~include_why /\ ~include_cover_letter THEN Refuse(r, 0, "select")
            ELSE IF jd = <<>> THEN Refuse(r, 0, "input")
            ELSE StoryStart(r)

\* generate_story_content gets its response
StoryReturns ==
    /\ pc = "story"
    /\ \E r \in StoryResponses :
        /\ received' = Append(received, r)
        /\ \E parsed \in {extract_json_from_text(r.text)} :
           LET keys == story_keys(req.include_why, req.include_cover_letter)
           IN  IF r.raised THEN Abort("service")
               ELSE IF ~parsed.ok THEN Abort("parse")
               ELSE IF story_raises(parsed.val, keys) THEN Abort("shape")
               ELSE /\ pc' = "done"
                    /\ outcome' = Success(0, filtered(parsed.val, keys))
                    /\ UNCHANGED <<req, idx, tailored, calls, sessionVars, storeVars>>

(***************************************************************************)
(* The specification of the requests: a stored profile, a session that has *)
(* it loaded or not and that is fresh or has generated one resume before,  *)
(* and one request.                                                        *)
(***************************************************************************)
\* the resume and the history entry of an earlier generation for an empty profile
EarlierResume ==
    tailored_resume(Prof(<<>>, <<>>, <<>>),
                    [NoneTailored EXCEPT !.jd_analysis = EmptyDict, !.summary = PyStr(<<"s", "u", "m">>)],
                    generated_skills(EmptyDict))
EarlierHistory == add_to_history(<<>>, EarlierResume, <<"j", "d">>, <<>>, <<>>)

Init ==
    /\ \E p \in Profiles :
        /\ files = (StoredName :> json_dump(model_dump(p)))
        /\ profile \in {<<>>, <<p>>}
    /\ backups = NoFiles
    /\ last_create = NoCreate
    /\ last_load = NoLoad
    /\ EditorIdle
    /\ api_key \in {"", SavedKey}
    /\ \/ /\ generated_resume = <<>>
          /\ resume_history = <<>>
          /\ current_resume_index = -1
          /\ history_file = Written(<<>>)
          /\ jd_input = <<>>
       \/ /\ generated_resume = <<EarlierResume>>
          /\ resume_history = EarlierHistory
          /\ current_resume_index = 0
          /\ history_file = Written(EarlierHistory)
          /\ jd_input = <<"j", "d">>
    /\ pc = "idle"
    /\ req = NoRequest
    /\ idx = 0
    /\ tailored = NoneTailored
    /\ calls = <<>>
    /\ outcome = NoOutcome
    /\ received = <<>>
    /\ ExtractIdle /\ TruncIdle /\ ExportIdle

\* a request touches neither a response under extraction nor a list under truncation
RequestOnly == UNCHANGED <<extractVars, truncVars, editorVars, raceVars, exportVars>>

Next ==
    \/ UIGenerate /\ RequestOnly
    \/ HTTPGenerate /\ RequestOnly
    \/ HTTPDelete /\ RequestOnly
    \/ AnalysisReturns /\ RequestOnly
    \/ SummaryReturns /\ RequestOnly
    \/ ExperienceReturns /\ RequestOnly
    \/ ProjectReturns /\ RequestOnly
    \/ SkillsReturns /\ RequestOnly
    \/ CallStory /\ RequestOnly
    \/ UIStory /\ RequestOnly
    \/ StoryReturns /\ RequestOnly

Spec == Init /\ [][Next]_vars

(***************************************************************************)
(* The specification of the profile store: profiles are saved, loaded by   *)
(* either manager and deleted, in any order. last_create and last_load     *)
(* remember the latest create_profile and, after it, the latest            *)
(* load_profile; a delete forgets both.                                    *)
(***************************************************************************)
MaxFiles == 2

Edu(degree, gpa, coursework) ==
    Education([degree |-> PyStr(degree), institution |-> PyStr(<<"u">>),
               start_date |-> PyStr(<<"1">>), end_date |-> PyStr(<<"2">>),
               gpa |-> gpa, relevant_coursework |-> PyList(coursework)])
\* a profile whose lists hold two items each, in an order that is not sorted
Graduate ==
    [UserProfile([education |-> <<Edu(<<"m", "s">>, JNone, <<PyStr(<<"y">>), PyStr(<<"x">>)>>),
                                  Edu(<<"b", "s">>, PyStr(<<"4">>), <<>>)>>,
                  certifications |-> PyList(<<PyStr(<<"c", "2">>), PyStr(<<"c", "1">>)>>)])
     EXCEPT !.personal_info.name = PyStr(<<"G">>)]
StoreProfiles == {UserProfile(<<>>), Graduate}

BackupName == <<"b">>
\* names as a user types them: clean, with a margin, with a dot after a space
\* (cleaning the last gives the second, which cleaning changes again)
TypedNames == {StoredName, <<"a", " ">>, <<"a", " ", ".">>}
LoadNames == TypedNames \cup {BackupName, versioned_name(StoredName, 2)}

InitStore ==
    /\ files = NoFiles
    /\ backups = (BackupName :> json_dump(model_dump(Graduate)))
    /\ last_create = NoCreate
    /\ last_load = NoLoad
    /\ ExtractIdle
    /\ TruncIdle
    /\ SessionIdle
    /\ RequestIdle /\ ExportIdle

\* create_profile(n, p, replace) of either manager
CreateProfile ==
    \E n \in TypedNames, p \in StoreProfiles, replace \in BOOLEAN :
        /\ Cardinality(DOMAIN files \cup {saved_name(files, n, replace)}) <= MaxFiles
        /\ \E made \in {create_profile(files, n, p, replace)} :
            /\ files' = made.files
            /\ last_create' = [done |-> TRUE, path |-> "call", asked |-> replace, given |-> n,
                               profile |-> <<p>>, replace |-> replace,
                               stored |-> DOMAIN files, name |-> made.name]
        /\ last_load' = NoLoad
        /\ UNCHANGED backups

\* load_profile(n) of src/profile_manager.py
LoadProfile ==
    \E n \in LoadNames : \E found \in {load_profile(files, n)} :
        /\ last_load' = [done |-> TRUE, manager |-> "ui", name |-> n,
                         status |-> found.status, profile |-> found.profile]
        /\ UNCHANGED <<files, backups, last_create>>

\* load_profile(n) of src/backend/profile_manager.py
BackendLoadProfile ==
    \E n \in LoadNames : \E found \in {backend_load_profile(files, backups, n)} :
        /\ last_load' = [done |-> TRUE, manager |-> "backend", name |-> n,
                         status |-> found.status, profile |-> found.profile]
        /\ UNCHANGED <<files, backups, last_create>>

\* delete_profile(n) of either manager, for a file that is there
DeleteProfile ==
    \E n \in DOMAIN files :
        /\ files' = [s \in (DOMAIN files) \ {n} |-> files[s]]
        /\ last_create' = NoCreate
        /\ last_load' = NoLoad
        /\ UNCHANGED backups

\* the store is used outside any session and any request
StoreOnly == UNCHANGED <<extractVars, truncVars, sessionVars, editorVars, requestVars, raceVars, exportVars>>

NextStore ==
    \/ CreateProfile /\ StoreOnly
    \/ LoadProfile /\ StoreOnly
    \/ BackendLoadProfile /\ StoreOnly
    \/ DeleteProfile /\ StoreOnly

SpecStore == InitStore /\ [][NextStore]_vars

(***************************************************************************)
(* The specification of loading a legacy profile: one document written     *)
(* before start_date and end_date existed, whose education records carry   *)
(* graduation_date, lies in the profiles directory or in the backup        *)
(* directory, and either manager loads it.                                 *)
(***************************************************************************)
May2024 == <<"M", "a", "y", " ", "2", "0", "2", "4">>
May2020 == <<"M", "a", "y", " ", "2", "0", "2", "0">>
\* graduation dates: month and year, with a wider gap, with a year that is no
\* number, with a negative year, a year alone, a day too, empty
GraduationDates ==
    {May2024,
     <<"D", "e", "c", " ", " ", "1", "9", "9", "9">>,
     <<"M", "a", "y", " ", "x">>,
     <<"M", "a", "y", " ", "-", "3">>,
     <<"2", "0", "2", "4">>,
     <<"M", "a", "y", " ", "1", " ", "2", "0", "2", "4">>,
     <<>>}
\* an education record of the old format
LegacyEducation(grad_date) ==
    [degree |-> PyStr(<<"b", "s">>), institution |-> PyStr(<<"u">>),
     gpa |-> JNone, graduation_date |-> PyStr(grad_date)]
\* the old documents: one record, or one after a record of the new format
LegacyLists ==
    {<<LegacyEducation(g)>> : g \in GraduationDates}
        \cup {<<entry_dump(Edu(<<"m", "s">>, JNone, <<>>)), LegacyEducation(g)>> :
                    g \in GraduationDates}
LegacyDocuments ==
    {json_dump([model_dump(UserProfile(<<>>)) EXCEPT !.education = list]) : list \in LegacyLists}

InitLegacy ==
    /\ \E doc \in LegacyDocuments :
        \/ files = (StoredName :> doc) /\ backups = NoFiles
        \/ files = NoFiles /\ backups = (BackupName :> doc)
    /\ last_create = NoCreate
    /\ last_load = NoLoad
    /\ ExtractIdle
    /\ TruncIdle
    /\ SessionIdle
    /\ RequestIdle /\ ExportIdle

NextLegacy ==
    \/ LoadProfile /\ StoreOnly
    \/ BackendLoadProfile /\ StoreOnly

SpecLegacy == InitLegacy /\ [][NextLegacy]_vars

(***************************************************************************)
(* The specification of the profile editor (src/app.py:301-410 and         *)
(* 640-1206) over the profile store, with POST /api/profiles               *)
(* (src/backend/main.py:113-121) saving into the same directory. One       *)
(* action is one run of the script for one click. last_create remembers    *)
(* the create_profile of the latest handler, with the path that made the   *)
(* call and whether the user asked for the replacement; a handler that     *)
(* saves nothing forgets it.                                               *)
(***************************************************************************)
MaxItems == 1

\* what the forms of the editor make of their inputs
FormEducation(degree) ==
    Education([degree |-> PyStr(degree), institution |-> PyStr(<<"u">>),
               location |-> PyStr(<<>>), start_date |-> PyStr(<<"1">>),
               end_date |-> PyStr(<<"2">>), gpa |-> JNone, achievements |-> PyList(<<>>)])
FormExperience(title) ==
    Experience([title |-> PyStr(title), company |-> PyStr(<<"c">>), location |-> PyStr(<<>>),
                start_date |-> PyStr(<<"1">>), end_date |-> PyStr(<<"2">>),
                description |-> PyList(<<PyStr(<<"x">>)>>), skills_used |-> PyList(<<>>)])
FormProject(name) ==
    Project([name |-> PyStr(name), description |-> PyStr(<<"x">>),
             technologies |-> PyList(<<>>), achievements |-> PyList(<<>>), url |-> JNone])
Added == <<"n">>
Edited == <<"e">>

\* names typed into the Profile Name input: one that cleaning keeps, one that it changes
EditorNames == {StoredName, <<"a", " ", ".">>}

\* the items of the profile in memory, over its three lists
Items(p) == Len(p.education) + Len(p.experience) + Len(p.projects)
\* list.pop(i) and list[i] = e, with the indexes of the source from 0
Popped(list, i) == SubSeq(list, 1, i) \o SubSeq(list, i + 2, Len(list))
Replaced(list, i, e) == [list EXCEPT ![i + 1] = e]

\* auto_save_profile() for the profile p now in memory
auto_save_profile(p) ==
    IF current_profile_name # <<>> /\ current_profile_name[1] # <<>>
    THEN /\ Cardinality(DOMAIN files \cup {clean_name(current_profile_name[1])}) <= MaxFiles
         /\ \E made \in {create_profile(files, current_profile_name[1], p, TRUE)} :
              /\ files' = made.files
              /\ last_create' = [done |-> TRUE, path |-> "auto", asked |-> FALSE,
                                 given |-> current_profile_name[1], profile |-> <<p>>,
                                 replace |-> TRUE, stored |-> DOMAIN files, name |-> made.name]
    ELSE /\ last_create' = NoCreate
         /\ UNCHANGED files

\* the Save button of a form, add or edit: the item goes into the profile in
\* memory and auto_save_profile() is called
SaveItem(handler, kind, changed) ==
    /\ profile' = <<changed>>
    /\ auto_save_profile(changed)
    /\ last_action' = [handler |-> handler, kind |-> kind]
    /\ UNCHANGED <<current_profile_name, confirm_delete_navbar, confirm_asked_for>>

\* the Remove button of an item: the item is popped and the script reruns
RemoveItem(kind, changed) ==
    /\ profile' = <<changed>>
    /\ last_create' = NoCreate
    /\ last_action' = [handler |-> "remove", kind |-> kind]
    /\ UNCHANGED <<files, current_profile_name, confirm_delete_navbar, confirm_asked_for>>

AddEducation ==
    /\ profile # <<>>
    /\ Items(profile[1]) < MaxItems
    /\ SaveItem("add", "education",
                [profile[1] EXCEPT !.education = Append(@, FormEducation(Added))])
EditEducation ==
    /\ profile # <<>>
    /\ \E i \in 0..(Len(profile[1].education) - 1) :
            SaveItem("edit", "education",
                     [profile[1] EXCEPT !.education = Replaced(@, i, FormEducation(Edited))])
RemoveEducation ==
    /\ profile # <<>>
    /\ \E i \in 0..(Len(profile[1].education) - 1) :
            RemoveItem("education", [profile[1] EXCEPT !.education = Popped(@, i)])

AddExperience ==
    /\ profile # <<>>
    /\ Items(profile[1]) < MaxItems
    /\ SaveItem("add", "experience",
                [profile[1] EXCEPT !.experience = Append(@, FormExperience(Added))])
EditExperience ==
    /\ profile # <<>>
    /\ \E i \in 0..(Len(profile[1].experience) - 1) :
            SaveItem("edit", "experience",
                     [profile[1] EXCEPT !.experience = Replaced(@, i, FormExperience(Edited))])
RemoveExperience ==
    /\ profile # <<>>
    /\ \E i \in 0..(Len(profile[1].experience) - 1) :
            RemoveItem("experience", [profile[1] EXCEPT !.experience = Popped(@, i)])

AddProject ==
    /\ profile # <<>>
    /\ Items(profile[1]) < MaxItems
    /\ SaveItem("add", "projects",
                [profile[1] EXCEPT !.projects = Append(@, FormProject(Added))])
EditProject ==
    /\ profile # <<>>
    /\ \E i \in 0..(Len(profile[1].projects) - 1) :
            SaveItem("edit", "projects",
                     [profile[1] EXCEPT !.projects = Replaced(@, i, FormProject(Edited))])
RemoveProject ==
    /\ profile # <<>>
    /\ \E i \in 0..(Len(profile[1].projects) - 1) :
            RemoveItem("projects", [profile[1] EXCEPT !.projects = Popped(@, i)])

\* Save to File with the name n in the input. When the cleaned name is
\* stored the handler warns and offers two buttons inside the branch of the
\* first: the click on one of them reruns the script, and whether that run
\* reaches the branch again is Streamlit's matter, so the save may not happen.
SaveChoices == {"none", "replace", "version"}
SaveToFile ==
    /\ profile # <<>>
    /\ \E n \in EditorNames, choice \in SaveChoices :
        /\ n # <<>>
        /\ clean_name(n) \notin DOMAIN files => choice = "none"
        /\ IF clean_name(n) \in DOMAIN files /\ choice = "none"
           THEN /\ last_create' = NoCreate
                /\ UNCHANGED <<files, current_profile_name>>
           ELSE /\ Cardinality(DOMAIN files \cup {saved_name(files, n, choice = "replace")})
                        <= MaxFiles
                /\ \E made \in {create_profile(files, n, profile[1], choice = "replace")} :
                    /\ files' = made.files
                    /\ current_profile_name' = <<made.name>>
                    /\ last_create' = [done |-> TRUE, path |-> "ui",
                                       asked |-> choice = "replace", given |-> n,
                                       profile |-> profile, replace |-> choice = "replace",
                                       stored |-> DOMAIN files, name |-> made.name]
        /\ last_action' = [handler |-> "save", kind |-> ""]
        /\ UNCHANGED <<profile, confirm_delete_navbar, confirm_asked_for>>

\* the profile selector: another of the stored profiles is chosen and loaded
SelectProfile ==
    \E n \in DOMAIN files : \E found \in {load_profile(files, n)} :
        /\ <<n>> # current_profile_name
        /\ found.status = "ok"
        /\ profile' = found.profile
        /\ current_profile_name' = <<n>>
        /\ last_create' = NoCreate
        /\ last_action' = NoAction
        /\ UNCHANGED <<files, confirm_delete_navbar, confirm_asked_for>>

NewProfile ==
    /\ profile' = <<UserProfile(<<>>)>>
    /\ current_profile_name' = <<>>
    /\ last_create' = NoCreate
    /\ last_action' = NoAction
    /\ UNCHANGED <<files, confirm_delete_navbar, confirm_asked_for>>

\* The Delete button, shown while a profile is current: a click with the flag
\* unset sets it and asks for another click; a click with the flag set deletes
\* the current profile, or reports a failure when delete_profile finds no file.
DeleteClick ==
    /\ current_profile_name # <<>> /\ current_profile_name[1] # <<>>
    /\ last_create' = NoCreate
    /\ last_action' = NoAction
    /\ IF confirm_delete_navbar
       THEN IF current_profile_name[1] \in DOMAIN files
            THEN /\ files' = [s \in (DOMAIN files) \ {current_profile_name[1]} |-> files[s]]
                 /\ profile' = <<>>
                 /\ current_profile_name' = <<>>
                 /\ confirm_delete_navbar' = FALSE
                 /\ confirm_asked_for' = <<>>
            ELSE UNCHANGED <<files, profile, current_profile_name, confirm_delete_navbar,
                             confirm_asked_for>>
       ELSE /\ confirm_delete_navbar' = TRUE
            /\ confirm_asked_for' = current_profile_name
            /\ UNCHANGED <<files, profile, current_profile_name>>

\* POST /api/profiles: create_profile(request.profile_name, profile, replace=True)
PostProfile ==
    \E n \in {StoredName}, body \in {model_dump(UserProfile(<<>>))} :
        /\ ValidProfileData(body)
        /\ Cardinality(DOMAIN files \cup {clean_name(n)}) <= MaxFiles
        /\ \E made \in {create_profile(files, n, UserProfile(body), TRUE)} :
            /\ files' = made.files
            /\ last_create' = [done |-> TRUE, path |-> "http", asked |-> FALSE, given |-> n,
                               profile |-> <<UserProfile(body)>>, replace |-> TRUE,
                               stored |-> DOMAIN files, name |-> made.name]
        /\ last_action' = [handler |-> "post", kind |-> ""]
        /\ UNCHANGED <<profile, current_profile_name, confirm_delete_navbar, confirm_asked_for>>

InitEditor ==
    /\ files = NoFiles
    /\ backups = NoFiles
    /\ last_create = NoCreate
    /\ last_load = NoLoad
    /\ ExtractIdle
    /\ TruncIdle
    /\ SessionIdle
    /\ RequestIdle /\ ExportIdle

\* the editor leaves the history, the backups and any request alone
EditorOnly ==
    UNCHANGED <<extractVars, truncVars, requestVars, backups, last_load, api_key,
                generated_resume, resume_history, current_resume_index, history_file, jd_input,
                history_ops, raceVars, exportVars>>

NextEditor ==
    \/ NewProfile /\ EditorOnly
    \/ SelectProfile /\ EditorOnly
    \/ DeleteClick /\ EditorOnly
    \/ SaveToFile /\ EditorOnly
    \/ AddEducation /\ EditorOnly
    \/ EditEducation /\ EditorOnly
    \/ RemoveEducation /\ EditorOnly
    \/ AddExperience /\ EditorOnly
    \/ EditExperience /\ EditorOnly
    \/ RemoveExperience /\ EditorOnly
    \/ AddProject /\ EditorOnly
    \/ EditProject /\ EditorOnly
    \/ RemoveProject /\ EditorOnly
    \/ PostProfile /\ EditorOnly

SpecEditor == InitEditor /\ [][NextEditor]_vars

(***************************************************************************)
(* The specification of the resume history of a session                    *)
(* (src/app.py:84-110, 169-210, 487-585 and 1475-1505): the history loaded *)
(* from the file at start-up, a generation that succeeds and adds its      *)
(* resume, the metadata edit and the delete of the sidebar. Every handler  *)
(* ends with save_resume_history, whose writes may fail.                   *)
(***************************************************************************)
MaxHistoryOps == 3

\* the entry load_resume_history returns for the i-th generation of earlier sessions
StoredEntry(i) ==
    [id |-> i, timestamp |-> "then", job_description |-> PyStr(<<"j", "d">>),
     resume |-> EarlierResume, job_title |-> PyStr(Untitled), company |-> PyStr(<<>>)]
\* the history a file of n entries loads as, newest first
StoredHistory(n) == [i \in 1..n |-> StoredEntry(n + 1 - i)]
\* the lengths of the file at start-up: none, short, one under the cap, at the cap
StoredLengths == {0, 2, HistoryCap - 1, HistoryCap}

\* the labels a generation gives its entry, and the ones typed into the edit form
Labels == {[title |-> <<>>, company |-> <<>>], [title |-> <<"t">>, company |-> <<"c">>]}
\* the rows of the sidebar a click goes to: the first two and the last two
Rows(history) == {i \in 0..(Len(history) - 1) : i < 2 \/ i > Len(history) - 3}

\* del resume_history[i]
deleted(history, i) == SubSeq(history, 1, i) \o SubSeq(history, i + 2, Len(history))
\* resume_history[i]['job_title'] = new_title or 'Untitled', and the same for company
edited_with_timestamp(history, i, new_title, new_company) ==
    [history EXCEPT ![i + 1] = [@ EXCEPT !.job_title = PyStr(new_title),
                                         !.company = PyStr(new_company),
                                         !.timestamp = "now"]]
edited(history, i, new_title, new_company) ==
    [history EXCEPT ![i + 1].job_title = PyStr(IF new_title = <<>> THEN Untitled ELSE new_title),
                    ![i + 1].company = PyStr(new_company)]

InitHistory ==
    /\ \E n \in StoredLengths :
        /\ resume_history = StoredHistory(n)
        /\ history_file = Written(StoredHistory(n))
    /\ current_resume_index = -1
    /\ generated_resume = <<>>
    /\ jd_input = <<>>
    /\ api_key = SavedKey
    /\ profile = <<>>
    /\ EditorIdle
    /\ StoreIdle
    /\ ExtractIdle
    /\ TruncIdle
    /\ RequestIdle /\ ExportIdle

\* the end of a generation that succeeded (src/app.py:1316-1317, 1400-1405)
AppendGenerated ==
    /\ history_ops < MaxHistoryOps
    /\ \E given \in Labels, disk \in Disk :
        \E history \in {add_to_history(resume_history, EarlierResume, <<"j", "d">>,
                                       given.company, given.title)} :
            /\ resume_history' = history
            /\ current_resume_index' = 0
            /\ generated_resume' = <<EarlierResume>>
            /\ jd_input' = <<"j", "d">>
            /\ history_file' = save_resume_history(history, history_file, disk)
            /\ last_action' = [handler |-> "append", kind |-> disk]
    /\ history_ops' = history_ops + 1

\* the index left as it is after a delete
adjusted_index_kept(index, history) == index
\* the current index after a delete left this history
adjusted_index(index, history) ==
    IF index >= Len(history) THEN Max({0, Len(history) - 1}) ELSE index

\* the delete button of row i
DeleteEntry ==
    /\ history_ops < MaxHistoryOps
    /\ \E i \in Rows(resume_history), disk \in Disk :
        \E history \in {deleted(resume_history, i)} :
            /\ resume_history' = history
            /\ current_resume_index' = adjusted_index(current_resume_index, history)
            /\ history_file' = save_resume_history(history, history_file, disk)
            /\ last_action' = [handler |-> "delete", kind |-> disk]
    /\ history_ops' = history_ops + 1
    /\ UNCHANGED <<generated_resume, jd_input>>

\* the Save button of the edit form of row i
SaveEdit ==
    /\ history_ops < MaxHistoryOps
    /\ \E i \in Rows(resume_history), typed \in Labels, disk \in Disk :
        \E history \in {edited(resume_history, i, typed.title, typed.company)} :
            /\ resume_history' = history
            /\ history_file' = save_resume_history(history, history_file, disk)
            /\ last_action' = [handler |-> "edit", kind |-> disk]
    /\ history_ops' = history_ops + 1
    /\ UNCHANGED <<generated_resume, jd_input, current_resume_index>>

\* the button of row i: the row becomes the current one and its resume is shown
SelectEntry ==
    /\ history_ops < MaxHistoryOps
    /\ \E i \in Rows(resume_history) :
        /\ current_resume_index' = i
        /\ generated_resume' = <<resume_history[i + 1].resume>>
    /\ last_action' = [handler |-> "select", kind |-> ""]
    /\ history_ops' = history_ops + 1
    /\ UNCHANGED <<resume_history, history_file, jd_input>>

\* the Older button, shown with a history that is not empty and disabled on
\* the last row
Older ==
    /\ history_ops < MaxHistoryOps
    /\ resume_history # <<>>
    /\ ~(current_resume_index >= Len(resume_history) - 1)
    /\ current_resume_index' = current_resume_index + 1
    /\ last_action' = [handler |-> "older", kind |-> ""]
    /\ history_ops' = history_ops + 1
    /\ UNCHANGED <<resume_history, history_file, generated_resume, jd_input>>

\* the Newer button, disabled on the first row and when no row is current
Newer ==
    /\ history_ops < MaxHistoryOps
    /\ resume_history # <<>>
    /\ ~(current_resume_index <= 0)
    /\ current_resume_index' = current_resume_index - 1
    /\ last_action' = [handler |-> "newer", kind |-> ""]
    /\ history_ops' = history_ops + 1
    /\ UNCHANGED <<resume_history, history_file, generated_resume, jd_input>>

\* the history is handled outside any request and away from the profile
HistoryOnly ==
    UNCHANGED <<extractVars, truncVars, storeVars, requestVars, api_key, profile,
                current_profile_name, confirm_delete_navbar, confirm_asked_for, raceVars, exportVars>>

NextHistory ==
    \/ AppendGenerated /\ HistoryOnly
    \/ DeleteEntry /\ HistoryOnly
    \/ SaveEdit /\ HistoryOnly
    \/ SelectEntry /\ HistoryOnly
    \/ Older /\ HistoryOnly
    \/ Newer /\ HistoryOnly

SpecHistory == InitHistory /\ [][NextHistory]_vars

(***************************************************************************)
(* The specification of concurrent saves: two writers (two sessions, or a  *)
(* session and the backend) call create_profile at the same time on one    *)
(* profiles directory. Each call goes its own way through the code, line   *)
(* by line where it reads or writes the directory; nothing locks the       *)
(* directory, so the steps of the two calls interleave freely.             *)
(***************************************************************************)
Writers == {1, 2}
Other(w) == 3 - w
WriterProfile(w) == IF w = 1 THEN Prof(<<"o", "n", "e">>, <<>>, <<>>) ELSE Graduate
\* the names the writers type: both clean to the stored name
RaceNames == {StoredName, <<"a", " ">>}
\* the directory the writers find: empty, the name stored, and its version 2 too
RaceStores ==
    LET doc == json_dump(model_dump(UserProfile(<<>>)))
    IN  { NoFiles, (StoredName :> doc),
          [s \in {StoredName, versioned_name(StoredName, 2)} |-> doc] }

NotCalled(n, p, replace) ==
    [pc |-> "start", given |-> n, doc |-> json_dump(model_dump(p)), replace |-> replace,
     alone |-> FALSE, clean |-> <<>>, version |-> 0, path |-> <<>>, name |-> <<>>]

\* versioned_path.exists() that never finds the file
versioned_path_exists_never(fs, c, version) == FALSE
\* versioned_path.exists()
versioned_path_exists(fs, c, version) == versioned_name(c, version) \in DOMAIN fs

\* what a file holds after a writer that opened it wrote its document and
\* closed it: the writer's position is the start of the file, and what the
\* file held beyond the end of the document stays
written_from_start(held, doc) == doc \o Tail_from(held, Len(doc) + 1)

InitRace ==
    /\ files \in RaceStores
    /\ writers \in {[w \in Writers |-> NotCalled(n[w], WriterProfile(w), r[w])] :
                        n \in [Writers -> RaceNames], r \in [Writers -> BOOLEAN]}
    /\ sessions = <<>>
    /\ backups = NoFiles
    /\ last_create = NoCreate
    /\ last_load = NoLoad
    /\ ExtractIdle
    /\ TruncIdle
    /\ api_key = ""
    /\ profile = <<>>
    /\ generated_resume = <<>>
    /\ resume_history = <<>>
    /\ current_resume_index = -1
    /\ history_file = Written(<<>>)
    /\ jd_input = <<>>
    /\ current_profile_name = <<>>
    /\ confirm_delete_navbar = FALSE
    /\ confirm_asked_for = <<>>
    /\ last_action = NoAction
    /\ history_ops = 0
    /\ RequestIdle /\ ExportIdle

\* the call begins: the name is cleaned and profile_path.exists() is evaluated
\* (lines 82-89); alone tells that the other call had returned by then
CheckPath(w) ==
    /\ writers[w].pc = "start"
    /\ LET c == clean_name(writers[w].given)
           me == [writers[w] EXCEPT !.clean = c, !.alone = writers[Other(w)].pc = "done"]
       IN  writers' = [writers EXCEPT ![w] =
                IF c \in DOMAIN files /\ ~me.replace
                THEN [me EXCEPT !.pc = "loop", !.version = 2]
                ELSE [me EXCEPT !.pc = "open", !.path = c]]
    /\ UNCHANGED files

\* one turn of the versioning loop (lines 92-99)
TryVersion(w) ==
    /\ writers[w].pc = "loop"
    /\ LET me == writers[w]
       IN  writers' = [writers EXCEPT ![w] =
                IF ~versioned_path_exists(files, me.clean, me.version)
                THEN [me EXCEPT !.pc = "open", !.path = versioned_name(me.clean, me.version)]
                ELSE [me EXCEPT !.version = me.version + 1]]
    /\ UNCHANGED files

\* open(profile_path, 'w') (line 101): the file is created, or cut to nothing
OpenPath(w) ==
    /\ writers[w].pc = "open"
    /\ files' = [s \in (DOMAIN files) \cup {writers[w].path} |->
                    IF s = writers[w].path THEN <<>> ELSE files[s]]
    /\ writers' = [writers EXCEPT ![w].pc = "dump"]

\* json.dump and the end of the with block (lines 102-103): the document is
\* written and the cleaned, possibly versioned name is returned
DumpAndReturn(w) ==
    /\ writers[w].pc = "dump"
    /\ files' = [files EXCEPT ![writers[w].path] = written_from_start(@, writers[w].doc)]
    /\ writers' = [writers EXCEPT ![w].pc = "done", ![w].name = writers[w].path]

RaceOnly ==
    UNCHANGED <<extractVars, truncVars, sessionVars, editorVars, requestVars, sessions,
                backups, last_create, last_load, exportVars>>

NextRace ==
    \/ \E w \in Writers : CheckPath(w) /\ RaceOnly
    \/ \E w \in Writers : TryVersion(w) /\ RaceOnly
    \/ \E w \in Writers : OpenPath(w) /\ RaceOnly
    \/ \E w \in Writers : DumpAndReturn(w) /\ RaceOnly

SpecRace == InitRace /\ [][NextRace]_vars

(***************************************************************************)
(* The specification of concurrent sessions: two browser sessions of the   *)
(* UI run on one working directory. Each has its own session state, which  *)
(* loads the history file once, when the session starts, and writes it     *)
(* whole after each of its appends. A save is one step: the saves of the   *)
(* two sessions do not overlap in time.                                    *)
(***************************************************************************)
MaxAppends == 2

Tabs == {1, 2}
NotOpen == [open |-> FALSE, resume_history |-> <<>>, added |-> {}, saved |-> "", last |-> FALSE]
\* the lengths of the file when the first session starts: none, short, at the cap
SharedLengths == {0, 2, HistoryCap}

\* load_resume_history(): the entries of the file, or [] when it holds no JSON
load_resume_history(stored) == IF stored.cut THEN <<>> ELSE stored.entries

\* every id in use: in the file and in the session state of either session
IdsInUse ==
    Ids(load_resume_history(history_file))
        \cup UNION {Ids(sessions[t].resume_history) \cup sessions[t].added : t \in Tabs}

InitSessions ==
    /\ \E n \in SharedLengths : history_file = Written(StoredHistory(n))
    /\ sessions = [t \in Tabs |-> NotOpen]
    /\ writers = <<>>
    /\ StoreIdle
    /\ ExtractIdle
    /\ TruncIdle
    /\ api_key = SavedKey
    /\ profile = <<>>
    /\ generated_resume = <<>>
    /\ resume_history = <<>>
    /\ current_resume_index = -1
    /\ jd_input = <<>>
    /\ current_profile_name = <<>>
    /\ confirm_delete_navbar = FALSE
    /\ confirm_asked_for = <<>>
    /\ last_action = NoAction
    /\ history_ops = 0
    /\ RequestIdle /\ ExportIdle

\* the first run of the script in a session (src/app.py:116-117)
OpenSession(t) ==
    /\ ~sessions[t].open
    /\ sessions' = [sessions EXCEPT ![t] =
            [NotOpen EXCEPT !.open = TRUE,
                            !.resume_history = load_resume_history(history_file)]]
    /\ UNCHANGED history_file

\* a generation succeeds in session t: add_to_history, with the id uuid4
\* gives, which no other entry carries, and save_resume_history
SessionAppends(t) ==
    /\ sessions[t].open
    /\ Cardinality(sessions[t].added) < MaxAppends
    /\ \E disk \in Disk :
        \E history \in {[add_to_history(sessions[t].resume_history, EarlierResume,
                                        <<"j", "d">>, <<>>, <<>>)
                            EXCEPT ![1].id = 1 + Max({0} \cup IdsInUse)]} :
            /\ sessions' = [u \in Tabs |->
                    IF u = t
                    THEN [sessions[t] EXCEPT !.resume_history = history,
                                             !.added = @ \cup {history[1].id},
                                             !.saved = disk, !.last = TRUE]
                    ELSE [sessions[u] EXCEPT !.last = FALSE]]
            /\ history_file' = save_resume_history(history, history_file, disk)

SessionsOnly ==
    UNCHANGED <<extractVars, truncVars, storeVars, editorVars, requestVars, writers, api_key,
                profile, generated_resume, resume_history, current_resume_index, jd_input,
                exportVars>>

NextSessions ==
    \/ \E t \in Tabs : OpenSession(t) /\ SessionsOnly
    \/ \E t \in Tabs : SessionAppends(t) /\ SessionsOnly

SpecSessions == InitSessions /\ [][NextSessions]_vars

(***************************************************************************)
(* Properties of extract_json_from_text, under SpecExtract.                *)
(***************************************************************************)
\* prose that holds no brace, bracket, quote or backquote
CleanProse(p) == \A i \in 1..Len(p) : p[i] \notin {"{", "}", "[", "]", Q, BQ}
Blank(p) == \A i \in 1..Len(p) : p[i] \in WS
HoldsFence(s) == \E i \in 1..Len(s) : StartsAt(s, i, Fence)
\* s holds a substring that opens with a brace and closes with a brace
BraceDelimited(s) == \E a, b \in 1..Len(s) : a < b /\ s[a] = "{" /\ s[b] = "}"
\* the response is a JSON value and whitespace, nothing else
WholeJson(o) == o.kind \in {"object", "value"} /\ o.wrap = "bare" /\ Blank(o.pre) /\ Blank(o.post)

C4_StrategyOrder ==
    result.done =>
        LET whole == json_loads(text)
            fenced == search_fenced(text)
            braces == search_braces(text)
            last == result.tried[Len(result.tried)]
        IN  /\ result.tried \in {<<"whole">>, <<"whole", "fenced">>,
                                 <<"whole", "braces">>, <<"whole", "fenced", "braces">>}
            /\ Len(result.tried) > 1 => ~whole.ok
            /\ (\E i \in 1..Len(result.tried) : result.tried[i] = "fenced") <=> (~whole.ok /\ fenced.found)
            /\ last = "braces" => braces.found /\ (fenced.found => ~json_loads(fenced.group).ok)
            /\ result.ok =>
                  /\ last = "whole" => result.val = whole.val
                  /\ last = "fenced" => json_loads(fenced.group).ok /\ result.val = json_loads(fenced.group).val
                  /\ last = "braces" => json_loads(braces.group).ok /\ result.val = json_loads(braces.group).val
            /\ ~result.ok =>
                  /\ ~whole.ok
                  /\ fenced.found => ~json_loads(fenced.group).ok
                  /\ braces.found => ~json_loads(braces.group).ok
                  /\ last = (IF braces.found THEN "braces" ELSE IF fenced.found THEN "fenced" ELSE "whole")
                  /\ Len(result.excerpt) = (IF Len(text) < 200 THEN Len(text) ELSE 200)
                  /\ \A i \in 1..Len(result.excerpt) : result.excerpt[i] = text[i]

\* A response of more than 200 characters that no strategy could parse, all
\* three having been tried, has raised the error with its first 200 characters.
C4_Witness ==
    /\ result.done
    /\ ~result.ok
    /\ result.tried = <<"whole", "fenced", "braces">>
    /\ Len(text) > 200
    /\ Len(result.excerpt) = 200

(***************************************************************************)
(* Properties of truncate_bullets_to_25_words, under SpecTrunc.            *)
(***************************************************************************)
\* C5: the list returned has the length and the order of the list given; a
\* bullet of at most 25 words is returned unchanged, and a bullet of more
\* than 25 words as its first 25 words joined by single spaces and followed
\* by "...".
C5_TruncationContract ==
    truncated.done =>
        /\ Len(truncated.out) = Len(bullets)
        /\ \A i \in DOMAIN bullets :
              IF bulletGen[i].n <= 25
              THEN truncated.out[i] = bullets[i]
              ELSE truncated.out[i] = JoinWith(NumberWords(25), <<" ">>) \o <<".", ".", ".">>

\* A list of a bullet of more than 25 words that other whitespace than single
\* spaces separates, and then a bullet of exactly 25 words with whitespace
\* around it, has been truncated.
C5_Witness ==
    /\ truncated.done
    /\ Len(bullets) = 2
    /\ bulletGen[1].n > 25
    /\ bulletGen[1].sep # <<" ">>
    /\ bulletGen[2].n = 25
    /\ bulletGen[2].margin # <<>>
    /\ truncated.out[1] # bullets[1]
    /\ truncated.out[2] = bullets[2]

(***************************************************************************)
(* Properties of the requests, under Spec.                                 *)
(***************************************************************************)
TailoringSteps == {"analysis", "summary", "experience", "project", "skills"}
\* the steps whose response is parsed
ParsedSteps == {"analysis", "experience", "project", "skills"}
\* generate_tailored_resume has returned a resume
Finished == pc = "done" /\ req.entry \in {"ui", "http"}
Resume == outcome.value[1]
LastReceived == received[Len(received)]

\* the response to the call of a step fails: the call raised, or the text that
\* must be parsed is no JSON as a whole, in a fenced block or between its braces
FailedResponse(step, r) ==
    \/ r.raised
    \/ /\ step \in ParsedSteps
       /\ ~json_loads(r.text).ok
       /\ ~(search_fenced(r.text).found /\ json_loads(search_fenced(r.text).group).ok)
       /\ ~(search_braces(r.text).found /\ json_loads(search_braces(r.text).group).ok)

SessionUntouched ==
    UNCHANGED <<generated_resume, resume_history, current_resume_index, history_file, jd_input>>

\* C1: when the response to a generation call of generate_tailored_resume
\* fails (the call raises, or the text to parse fails every extraction
\* attempt), the step that receives it reports an error that carries no resume,
\* issues no call, and leaves the history, the history file and the displayed
\* resume as they were; and after a failure no call is ever issued and nothing
\* of the session changes.
C1_AbortOnFailure ==
    [][ /\ (pc \in TailoringSteps /\ received' # received /\ FailedResponse(pc, received'[Len(received')]))
            => /\ pc' = "failed"
               /\ outcome'.kind = "error"
               /\ outcome'.value = <<>>
               /\ calls' = calls
               /\ SessionUntouched
        /\ pc = "failed" => (calls' = calls /\ outcome' = outcome /\ SessionUntouched) ]_vars

\* a session that showed a resume sees an experience fail after the summary
\* was generated: the earlier resume is still the one displayed
C1_Witness ==
    /\ pc = "failed"
    /\ req.entry = "ui"
    /\ Len(received) = 4
    /\ FailedResponse("experience", LastReceived)
    /\ tailored.experience # <<>>
    /\ generated_resume = <<EarlierResume>>
    /\ Len(resume_history) = 1

RECURSIVE Ascending(_)
Ascending(S) == IF S = {} THEN <<>> ELSE <<Min(S)>> \o Ascending(S \ {Min(S)})

\* a project the claims call in need of regeneration
NeedsRegeneration(project) ==
    \/ Content(project.technologies) = <<>>
    \/ Content(project.description) = <<>>
    \/ Content(project.description) = Placeholder

Regenerated(p) ==
    {k \in 1..Min({3, Len(p.projects)}) : NeedsRegeneration(p.projects[k])}

\* the calls of a run on profile p, each as <<step, index>>
ExpectedCalls(p) ==
    <<<<"analysis", 0>>, <<"summary", 0>>>>
    \o [i \in 1..Len(p.experience) |-> <<"experience", i>>]
    \o [j \in 1..Cardinality(Regenerated(p)) |-> <<"project", Ascending(Regenerated(p))[j]>>]
    \o <<<<"skills", 0>>>>

CallsIssued == [i \in DOMAIN calls |-> <<calls[i].step, calls[i].index>>]

\* C2: a finished run has issued exactly the calls analysis, summary, one per
\* experience in profile order, one per project among the first three that
\* needs regeneration in profile order, and skills, in this order; at any time
\* at most the last call issued is unanswered, every earlier one having
\* returned; and no call is issued twice.
C2_FixedCallOrder ==
    /\ Len(calls) - Len(received) \in {0, 1}
    /\ pc \in TailoringSteps => Len(calls) = Len(received) + 1
    /\ \A i, j \in DOMAIN calls : i < j => CallsIssued[i] # CallsIssued[j]
    /\ Finished => CallsIssued = ExpectedCalls(ReqProfile)

\* a run on a profile with an experience and four projects, of which the second
\* and the third are regenerated and the fourth is dropped
C2_Witness ==
    /\ Finished
    /\ Len(ReqProfile.projects) = 4
    /\ CallsIssued = <<<<"analysis", 0>>, <<"summary", 0>>, <<"experience", 1>>,
                       <<"project", 2>>, <<"project", 3>>, <<"skills", 0>>>>

\* the value parsed from the response to the call for the experience at i
ExperienceResponse(i) == extract_json_from_text(received[2 + i].text).val

\* C6, as claimed: in a finished run every tailored experience has for
\* description the bullets the service returned for it, truncated, and for
\* skills_used the entry's own when it declares some and the skills the service
\* returned otherwise.
C6_ServiceBulletsAlways ==
    Finished =>
        \A i \in DOMAIN ReqProfile.experience :
            LET exp == ReqProfile.experience[i]
                entry == Resume.experience[i]
                response == ExperienceResponse(i)
            IN  /\ HasKey(response, kBullets)
                /\ entry.description = truncate_value(Content(response)[kBullets])
                /\ IF Content(exp.skills_used) # <<>> THEN entry.skills_used = exp.skills_used
                   ELSE /\ HasKey(response, kSkills)
                        /\ entry.skills_used = Content(response)[kSkills]

\* C6, amended: in a finished run every tailored experience has for
\* description the bullets the service returned for it, truncated, when the
\* response holds bullets, and the entry's own description, as it is, when it
\* holds none; and for skills_used the entry's own when it declares some, the
\* skills the service returned when it declares none and the response holds
\* skills, and the entry's empty list otherwise.
C6_ServiceBulletsWhenReturned ==
    Finished =>
        /\ Len(Resume.experience) = Len(ReqProfile.experience)
        /\ \A i \in DOMAIN ReqProfile.experience :
            LET exp == ReqProfile.experience[i]
                entry == Resume.experience[i]
                response == ExperienceResponse(i)
            IN  /\ entry.description =
                        IF HasKey(response, kBullets)
                        THEN truncate_value(Content(response)[kBullets])
                        ELSE exp.description
                /\ entry.skills_used =
                        IF Content(exp.skills_used) # <<>> THEN exp.skills_used
                        ELSE IF HasKey(response, kSkills) THEN Content(response)[kSkills]
                        ELSE PyList(<<>>)

\* the scenario of the spec: an entry without skills_used, a response with the
\* skills a, b and the bullet Did X; and an entry with skills_used whose
\* response holds skills too
C6_Witness ==
    /\ Finished
    /\ Len(ReqProfile.experience) = 2
    /\ Content(ReqProfile.experience[1].skills_used) # <<>>
    /\ HasKey(ExperienceResponse(1), kSkills)
    /\ Content(ReqProfile.experience[2].skills_used) = <<>>
    /\ Resume.experience[2].skills_used = PyList(<<PyStr(<<"a">>), PyStr(<<"b">>)>>)
    /\ Resume.experience[2].description = PyList(<<PyStr(DidX)>>)

WordsOf(bullet) == Len(split(Content(bullet)))

\* C7: the projects of a finished run are the first min(3, n) projects of the
\* profile, in profile order; a generation call is issued for a kept project
\* exactly when it has no technologies or its description is empty or the
\* placeholder, and for no other project; a kept project that is not
\* regenerated is in the resume with every field as in the profile, but for its
\* achievements, which are the profile's truncated to 25 words.
C7_FirstThreeProjects ==
    Finished =>
        LET p == ReqProfile
            m == IF Len(p.projects) < 3 THEN Len(p.projects) ELSE 3
        IN  /\ Len(Resume.projects) = m
            /\ \A k \in 1..m : Resume.projects[k].name = p.projects[k].name
            /\ \A i \in DOMAIN calls : calls[i].step = "project" => calls[i].index \in 1..m
            /\ \A k \in 1..m :
                (\E i \in DOMAIN calls : calls[i].step = "project" /\ calls[i].index = k)
                    <=> NeedsRegeneration(p.projects[k])
            /\ \A k \in 1..m :
                ~NeedsRegeneration(p.projects[k]) =>
                    /\ Resume.projects[k] =
                            [p.projects[k] EXCEPT !.achievements = Resume.projects[k].achievements]
                    /\ Resume.projects[k].achievements =
                            truncate_value(p.projects[k].achievements)

\* a profile of four projects whose fourth needs regeneration and is dropped,
\* and whose second passes through with an achievement cut down to 25 words
C7_Witness ==
    /\ Finished
    /\ Len(ReqProfile.projects) = 4
    /\ NeedsRegeneration(ReqProfile.projects[4])
    /\ Len(Resume.projects) = 3
    /\ ~NeedsRegeneration(ReqProfile.projects[2])
    /\ WordsOf(Content(ReqProfile.projects[2].achievements)[1]) = WordLimit + 1
    /\ Resume.projects[2].achievements # ReqProfile.projects[2].achievements
    /\ WordsOf(Content(Resume.projects[2].achievements)[1]) = WordLimit

\* generate_story_content was asked for, directly or by the story button
StoryRequest == req.entry \in {"story", "ui_story"}
\* the story of the request's profile or its job description is empty or whitespace
BlankInputs ==
    \/ BlankStr(Content(req.profile[1].my_story))
    \/ BlankStr(req.job_description)
SomeOutput == req.include_why \/ req.include_cover_letter

\* C8, as claimed: whatever the flags, a story request whose story or job
\* description is empty or whitespace fails with an error and issues no call.
C8_FailsWhateverTheFlags ==
    (StoryRequest /\ BlankInputs) => (calls = <<>> /\ outcome.kind = "error")

\* C8, amended: a story request whose story or job description is empty or
\* whitespace issues no call; it fails with an error when at least one of
\* include_why and include_cover_letter is set, and with neither set
\* generate_story_content returns an empty result.
C8_FailsWhenOutputAsked ==
    (StoryRequest /\ BlankInputs) =>
        /\ calls = <<>>
        /\ SomeOutput => outcome.kind = "error"
        /\ (~SomeOutput /\ req.entry = "story") => outcome = Success(0, <<>>)

\* a direct call with a story of whitespace, a job description and a flag set
C8_Witness ==
    /\ req.entry = "story"
    /\ Content(req.profile[1].my_story) = <<" ">>
    /\ req.job_description = <<"j", "d">>
    /\ req.include_why /\ ~req.include_cover_letter
    /\ outcome.kind = "error"
    /\ pc = "failed"

\* C9: a request for a resume, from the Generate button or from POST
\* /api/generate-resume, that has no profile or an empty job description is
\* answered with an error and issues no generation call.
C9_InputsCheckedBeforeAnyCall ==
    (req.entry \in {"ui", "http"} /\ (req.profile = <<>> \/ req.job_description = <<>>))
        => (calls = <<>> /\ outcome.kind = "error")

\* the latest load followed the latest create with nothing but loads in between
LoadFollowsCreate == last_create.done /\ last_load.done
\* the load returned a profile equal to the one saved, field by field and item by item
RoundTrip == last_load.status = "ok" /\ last_load.profile = last_create.profile
\* cleaning leaves the name as it was typed
IsClean(n) == clean_name(n) = n

\* C10, as claimed: for every profile P and every name n, create_profile(n, P)
\* followed by load_profile(n), by either manager, returns a profile equal to P
\* with the order of every list kept.
C10_RoundTripByGivenName ==
    (LoadFollowsCreate /\ last_load.name = last_create.given) => RoundTrip

\* C10, amended: for every profile P and every name n, create_profile(n, P)
\* followed by load_profile(m), by either manager, for the name m that
\* create_profile returned, returns a profile equal to P with the order of
\* every list kept; and m is n when cleaning leaves n as it is and either no
\* profile was stored under n or replace is set.
C10_RoundTripByReturnedName ==
    /\ (LoadFollowsCreate /\ last_load.name = last_create.name) => RoundTrip
    /\ (/\ last_create.done
        /\ IsClean(last_create.given)
        /\ last_create.replace \/ last_create.given \notin last_create.stored)
       => last_create.name = last_create.given

\* a profile with two education entries is saved under a name that is taken,
\* and the backend loads it under the versioned name create_profile returned
C10_Witness ==
    /\ last_create.done
    /\ last_create.given = StoredName
    /\ last_create.name = versioned_name(StoredName, 2)
    /\ last_create.profile = <<Graduate>>
    /\ last_load.done
    /\ last_load.manager = "backend"
    /\ last_load.name = last_create.name
    /\ last_load.profile = <<Graduate>>

\* the latest create_profile was given, without replace, a name that was stored
SavedAgainUnderStoredName ==
    last_create.done /\ ~last_create.replace /\ last_create.given \in last_create.stored

\* C11: saving under a name that already exists, without requesting
\* replacement, writes a new file named name_vk for the smallest k >= 2 for
\* which name_vk is not stored (so _v2, then _v3), and create_profile returns
\* that versioned name.
C11_SavedUnderNextFreeVersion ==
    SavedAgainUnderStoredName =>
        /\ \E k \in 2..(Cardinality(last_create.stored) + 2) :
              /\ last_create.name = versioned_name(last_create.given, k)
              /\ \A j \in 2..(k - 1) : versioned_name(last_create.given, j) \in last_create.stored
        /\ last_create.name \notin last_create.stored
        /\ last_create.name \in DOMAIN files
        /\ files[last_create.name] = json_dump(model_dump(last_create.profile[1]))

\* the step changed the document stored under the name s
Overwritten(s) == s \in DOMAIN files /\ s \in DOMAIN files' /\ files'[s] # files[s]
\* the create_profile of the step met a stored profile under the cleaned name
Collided(c) == c.done /\ clean_name(c.given) \in c.stored

\* C12, as claimed: no step overwrites the stored content of a profile unless
\* the replacement was asked for explicitly for that save, and a save that
\* meets a stored name without such a request goes to a new versioned name, on
\* the UI save, the auto-save and POST /api/profiles alike.
C12_OverwriteOnlyWhenAsked ==
    [][/\ \A s \in DOMAIN files : Overwritten(s) => (last_create'.done /\ last_create'.asked)
       /\ (Collided(last_create') /\ ~last_create'.asked)
            => last_create'.name \notin last_create'.stored]_vars

\* C12, amended: no step overwrites the stored content of a profile unless it
\* calls create_profile with replace set, and then only the profile under the
\* cleaned name; a call without replace that meets a stored name goes to a new
\* versioned name; the UI save sets replace exactly when the user chose
\* Replace Existing, while the auto-save and POST /api/profiles always set it.
C12_OverwriteOnlyWithReplace ==
    [][/\ \A s \in DOMAIN files :
            Overwritten(s) =>
                /\ last_create'.done /\ last_create'.replace
                /\ s = last_create'.name
                /\ s = clean_name(last_create'.given)
       /\ (Collided(last_create') /\ ~last_create'.replace)
            => last_create'.name \notin last_create'.stored
       /\ (last_create'.done /\ last_create'.path = "ui")
            => (last_create'.replace <=> last_create'.asked)
       /\ (last_create'.done /\ last_create'.path \in {"auto", "http"})
            => (last_create'.replace /\ ~last_create'.asked)]_vars

\* the UI saved under a name that was stored and the user chose a new
\* version: the profile went to name_v2 and the stored one is still there
C12_Witness ==
    /\ last_create.done
    /\ last_create.path = "ui"
    /\ ~last_create.asked
    /\ clean_name(last_create.given) \in last_create.stored
    /\ last_create.name = versioned_name(clean_name(last_create.given), 2)
    /\ last_create.stored \cup {last_create.name} = DOMAIN files

\* the file of the current profile name holds the profile in memory
StoredIsCurrent ==
    /\ current_profile_name[1] \in DOMAIN files
    /\ files[current_profile_name[1]] = json_dump(model_dump(profile[1]))

\* C17: for a profile that has a current profile name, after every add, edit
\* or remove of an education, experience or project item the stored profile
\* file equals the profile in memory: the handler of the mutation auto-saves
\* before the next user action.
C17_StoredAfterEveryMutation ==
    (last_action.handler \in {"add", "edit", "remove"} /\ current_profile_name # <<>>)
        => StoredIsCurrent

\* C18: for every current profile name the session can hold, auto_save_profile
\* writes only the file that load_profile of that name reads and leaves the
\* set of stored profile names unchanged.
C18_AutoSaveWritesCurrentFile ==
    (last_create.done /\ last_create.path = "auto")
        => /\ last_create.name = current_profile_name[1]
           /\ DOMAIN files = last_create.stored
           /\ StoredIsCurrent

\* the document the latest load read, as json.load gives it
DocumentLoaded ==
    json_load(IF last_load.name \in DOMAIN files THEN files[last_load.name]
              ELSE backups[last_load.name])
LoadReadADocument ==
    /\ last_load.done
    /\ \/ last_load.name \in DOMAIN files
       \/ last_load.manager = "backend" /\ last_load.name \in DOMAIN backups
\* the record holds graduation_date and neither start_date nor end_date
OnlyGraduationDate(edu) ==
    "graduation_date" \in DOMAIN edu /\ {"start_date", "end_date"} \cap DOMAIN edu = {}
TwoTokens(date) == Len(split(date)) = 2

\* C13: a document whose education record contains only graduation_date loads
\* without a crash; the record loads with end_date = "May 2024" and
\* start_date = "May 2020" when graduation_date is "May 2024", and with the
\* original string in end_date when graduation_date is not exactly two
\* space-separated tokens.
C13_LegacyRecordLoads ==
    LoadReadADocument =>
        \A i \in DOMAIN DocumentLoaded.education :
            LET edu == DocumentLoaded.education[i]
                date == Content(edu.graduation_date)
            IN  (OnlyGraduationDate(edu) /\ (date = May2024 \/ ~TwoTokens(date))) =>
                    /\ last_load.status = "ok"
                    /\ last_load.profile[1].education[i].end_date = PyStr(date)
                    /\ date = May2024 =>
                            last_load.profile[1].education[i].start_date = PyStr(May2020)

\* the latest load asked for a name under which no profile is stored
LoadedNameNotStored == last_load.done /\ last_load.name \notin DOMAIN files

\* C14, as claimed: load_profile(name) raises a not-found failure whenever no
\* profile named name is currently stored, in both profile managers.
C14_NotFoundWhenNotStored ==
    LoadedNameNotStored => last_load.status = "not_found"

\* C14, amended: load_profile(name) raises a not-found failure whenever no
\* profile named name is currently stored and, for the backend's manager, no
\* backup directory holds a file of that name either; the backend's manager
\* loads the backup file when there is one.
C14_NotFoundWhenNotStoredNorBackedUp ==
    LoadedNameNotStored =>
        IF last_load.manager = "backend" /\ last_load.name \in DOMAIN backups
        THEN /\ last_load.status = Loaded(backups[last_load.name]).status
             /\ last_load.profile = Loaded(backups[last_load.name]).profile
        ELSE last_load.status = "not_found"

\* with another profile stored, the backend is asked for a name that is in
\* neither directory and reports that it is not found
C14_Witness ==
    /\ LoadedNameNotStored
    /\ last_load.manager = "backend"
    /\ last_load.name = StoredName
    /\ last_load.name \notin DOMAIN backups
    /\ files # NoFiles
    /\ last_load.status = "not_found"

\* the step put one new entry at index 0 and kept the entries before it, in
\* their order, as far as the new length goes
OneEntryAppended ==
    /\ resume_history' # <<>>
    /\ resume_history'[1].id \notin Ids(resume_history)
    /\ Tail(resume_history') = SubSeq(resume_history, 1, Len(resume_history') - 1)

\* C15: whatever appends, edits and deletes came before, an append leaves the
\* history with at most 20 entries, the new entry at index 0 and the others in
\* their previous relative order; an append to a history of 20 entries evicts
\* exactly the last, oldest one.
C15_AppendKeepsTheNewestTwenty ==
    [][last_action'.handler = "append" =>
            /\ OneEntryAppended
            /\ resume_history'[1].resume = generated_resume'[1]
            /\ Len(resume_history') <= HistoryCap
            /\ Len(resume_history') = Min({HistoryCap, Len(resume_history) + 1})
            /\ Len(resume_history) = HistoryCap =>
                    Tail(resume_history') = SubSeq(resume_history, 1, HistoryCap - 1)]_vars

\* a history of 20 entries got one more: the new entry is first, the one that
\* was last is gone and the one before it is last now
C15_Witness ==
    /\ last_action.handler = "append"
    /\ history_ops = 1
    /\ Len(resume_history) = HistoryCap
    /\ resume_history[1].id = HistoryCap + 1
    /\ resume_history[HistoryCap].id = 2

\* the entry f is the entry e with, at most, another job_title and company
SameButLabels(e, f) == f = [e EXCEPT !.job_title = f.job_title, !.company = f.company]
\* the step changed nothing but the labels of the entry of row i
EditedAt(i) ==
    /\ Len(resume_history') = Len(resume_history)
    /\ \A j \in DOMAIN resume_history :
            IF j = i + 1 THEN SameButLabels(resume_history[j], resume_history'[j])
            ELSE resume_history'[j] = resume_history[j]
\* the step removed the entry of row i and nothing else
DeletedAt(i) ==
    /\ Len(resume_history') = Len(resume_history) - 1
    /\ \A j \in DOMAIN resume_history' :
            resume_history'[j] = resume_history[IF j <= i THEN j ELSE j + 1]

C19_FailedSaveLeavesAList ==
    (last_action.handler \in {"append", "edit", "delete"} /\ last_action.kind # "ok")
        => /\ ~history_file.cut
           /\ last_action.kind = "fallback" => history_file = Written(<<>>)

\* C20: on every path to _tailor_experiences, from the bullet controls of the
\* UI and from experience_bullet_counts of the HTTP API, the number of bullets
\* asked for an experience is between 2 and 6, and it is 4 for every
\* experience for which the user made no explicit choice.
C20_BulletsFromTwoToSixAndFourByDefault ==
    \A k \in DOMAIN calls :
        calls[k].step = "experience" =>
            /\ calls[k].bullets \in 2..6
            /\ (calls[k].index - 1) \notin req.chosen => calls[k].bullets = DefaultBullets

\* C25: whenever extract_json_from_text returns, the value it returns is a
\* JSON object, never an array, a string, a number or a literal; a response
\* whose text parses only as a JSON value that is no object ends in the
\* terminal parse error.
C25_ReturnsObjectsOnly ==
    result.done =>
        /\ result.ok => IsDict(result.val)
        /\ origin.kind = "value" /\ WholeJson(origin) => ~result.ok

\* C24: in every resume generate_tailored_resume returns, every description
\* bullet of every experience and every achievement of every project holds at
\* most 25 whitespace-separated words, whatever the service returned,
\* responses without "bullets" or "achievements" included.
C24_AtMost25WordsInTheResume ==
    Finished =>
        /\ \A i \in DOMAIN Resume.experience :
             \A b \in DOMAIN Content(Resume.experience[i].description) :
                WordsOf(Content(Resume.experience[i].description)[b]) <= WordLimit
        /\ \A i \in DOMAIN Resume.projects :
             \A b \in DOMAIN Content(Resume.projects[i].achievements) :
                WordsOf(Content(Resume.projects[i].achievements)[b]) <= WordLimit

\* C29: the status an HTTP handler raises for a failed precondition is the
\* status the client receives: DELETE /api/profiles/{name} for a name that is
\* not stored answers 404, and POST /api/generate-resume with no API key
\* configured answers 400.
C29_PreconditionStatusIsAnswered ==
    /\ req.entry = "http_delete" /\ req.profile_name \notin DOMAIN files /\ pc = "refused"
          => outcome.status = 404
    /\ req.entry = "http" /\ api_key = "" /\ pc = "refused" => outcome.status = 400

\* C26: after any sequence of appends, selections, Older and Newer clicks,
\* metadata edits and deletes, whenever the history is not empty the current
\* index is between -1 and len(history) - 1, so that the entry
\* view_export_section shows exists.
C26_IndexWithinHistory ==
    resume_history # <<>> =>
        /\ -1 <= current_resume_index
        /\ current_resume_index <= Len(resume_history) - 1

\* the last row of a full history was made current and a delete then
\* shortened the history: the index is on the row that is last now
C26_Witness ==
    /\ last_action.handler = "delete"
    /\ history_ops = 2
    /\ Len(resume_history) = HistoryCap - 1
    /\ resume_history[1].id = HistoryCap
    /\ current_resume_index = HistoryCap - 2

\* C27: deleting an entry of the history other than the current one leaves
\* the selection on the same entry: the entry, by id, that
\* current_resume_index designated before the delete is the entry it
\* designates after it.
C27_DeleteKeepsTheSelection ==
    [][(/\ last_action'.handler = "delete"
        /\ current_resume_index \in 0..(Len(resume_history) - 1)
        /\ resume_history[current_resume_index + 1].id \in Ids(resume_history'))
          => /\ current_resume_index' \in 0..(Len(resume_history') - 1)
             /\ resume_history'[current_resume_index' + 1].id
                    = resume_history[current_resume_index + 1].id]_vars

\* C28: the UI deletes a stored profile only after two successive Delete
\* clicks made while that same profile is the loaded one; a confirmation
\* given while one profile was loaded never authorises the deletion of
\* another profile loaded afterwards. The step that deletes is the one that
\* clears confirm_delete_navbar.
C28_DeleteConfirmedForTheSameProfile ==
    [][(confirm_delete_navbar /\ ~confirm_delete_navbar')
            => /\ DOMAIN files' = (DOMAIN files) \ {current_profile_name[1]}
               /\ confirm_asked_for = current_profile_name]_vars

\* both calls have returned, and neither was told to replace
BothSaved == \A w \in Writers : writers[w].pc = "done" /\ ~writers[w].replace
\* the document of writer w is what some file holds
Kept(w) == \E s \in DOMAIN files : files[s] = writers[w].doc

\* C23: the profile store applies no locking, so two concurrent
\* create_profile calls without replacement can pick the same name and write
\* the same file, and the profile of one of them is lost. Two calls return the
\* same name only when they overlapped, both having looked for a free name
\* before either created its file, and then the document of at least one of
\* them is in no file; when one call begins after the other returned, the
\* names differ and both documents are kept.
C23_OverlappingSavesLoseAProfile ==
    BothSaved =>
        /\ writers[1].name = writers[2].name
              => /\ ~writers[1].alone /\ ~writers[2].alone
                 /\ \E w \in Writers : ~Kept(w)
        /\ (writers[1].alone \/ writers[2].alone)
              => /\ writers[1].name # writers[2].name
                 /\ \A w \in Writers : files[writers[w].name] = writers[w].doc

\* two saves under a name that was stored both found version 2 free: one file
\* was added, it holds the document of the second writer, and the document
\* of the first is gone
C23_Witness ==
    /\ BothSaved
    /\ writers[1].name = versioned_name(StoredName, 2)
    /\ writers[2].name = versioned_name(StoredName, 2)
    /\ DOMAIN files = {StoredName, versioned_name(StoredName, 2)}
    /\ Kept(2)
    /\ ~Kept(1)

\* both sessions have appended an entry, and every save succeeded
BothAppended == \A t \in Tabs : sessions[t].added # {} /\ sessions[t].saved = "ok"

\* C30, as claimed: with two concurrent sessions sharing the history file no
\* append is lost: once each session has appended an entry and saved, the
\* file holds the entries appended by both, unless the cap of 20 is reached.
C30_NoAppendLost ==
    (BothAppended /\ Len(load_resume_history(history_file)) < HistoryCap)
        => \A t \in Tabs : sessions[t].added \subseteq Ids(load_resume_history(history_file))

\* C30, amended: a save that succeeds leaves in the file the history of the
\* session that saved, whole: its own appends before the entries it loaded
\* when it started. An entry appended by the other session is in the file
\* only when the saving session had loaded it.
C30_FileHoldsTheLastSaversHistory ==
    \A t \in Tabs :
        (sessions[t].last /\ sessions[t].saved = "ok")
            => /\ history_file = Written(sessions[t].resume_history)
               /\ sessions[t].added \subseteq Ids(history_file.entries)
               /\ \A id \in sessions[3 - t].added :
                     id \in Ids(history_file.entries) => id \in Ids(sessions[t].resume_history)

\* both sessions started on the empty file, the first appended and then the
\* second: the file holds the entry of the second alone
C30_Witness ==
    /\ BothAppended
    /\ sessions[2].last
    /\ Cardinality(sessions[1].added) = 1
    /\ Len(history_file.entries) = 1
    /\ Ids(history_file.entries) = sessions[2].added

(***************************************************************************)
(* The renderers (src/export_handler.py). A resume handed to a renderer is *)
(* a dict: a function of the keys it holds. What a renderer makes of it is *)
(* told by the fields whose value the document shows, in the order shown,  *)
(* each as <<section, entry, field>> with entry 0 for the section itself;  *)
(* the file is written by the last statement, so a renderer that raises    *)
(* leaves no document.                                                     *)
(***************************************************************************)
\* d.get(k) is truthy, for a value that is a str, a list of str or None
filled(d, k) == k \in DOMAIN d /\ ~Falsy(d[k])
\* d.get(k) is truthy, for a value that is a dict or a list of dicts
holds(d, k) == k \in DOMAIN d /\ DOMAIN d[k] # {}

Item(section, i, field) == <<section, i, field>>
Done(items) == [raised |-> FALSE, printed |-> items]
Raises == [raised |-> TRUE, printed |-> <<>>]

RECURSIVE shown(_, _, _, _)
\* the items of the fields among ks whose value is printed under 'if d.get(k)'
shown(section, i, d, ks) ==
    IF ks = <<>> THEN <<>>
    ELSE (IF filled(d, Head(ks)) THEN <<Item(section, i, Head(ks))>> ELSE <<>>)
         \o shown(section, i, d, Tail(ks))

\* the statements of a renderer one after the other: the first that raises ends it
Joined(parts) ==
    IF \E i \in DOMAIN parts : parts[i].raised THEN Raises
    ELSE Done(Concat([i \in DOMAIN parts |-> parts[i].printed]))

Heading(section) == Done(<<Item(section, 0, "heading")>>)

\* the name and the contact lines, which the three renderers guard alike
header_lines(resume) ==
    LET personal == Get(resume, "personal_info", NoResume)
    IN  Done(<<Item("header", 0, "name")>>
             \o shown("header", 0, personal, <<"email", "phone", "location", "linkedin", "github">>))

summary_lines(resume) ==
    IF filled(resume, "summary")
    THEN Done(<<Item("summary", 0, "heading"), Item("summary", 0, "summary")>>)
    ELSE Done(<<>>)

skills_lines(resume) ==
    IF holds(resume, "skills")
    THEN Joined(<<Heading("skills"),
                  Done(shown("skills", 0, resume.skills, <<"technical", "languages", "tools">>))>>)
    ELSE Done(<<>>)

certifications_lines(resume) ==
    IF filled(resume, "certifications")
    THEN Done(<<Item("certifications", 0, "heading"), Item("certifications", 0, "certifications")>>)
    ELSE Done(<<>>)

\* exp['title'] and exp['company'] are subscripted by export_to_pdf and
\* export_to_txt, exp['company'] alone by export_to_docx
experience_entry(required, exp, i) ==
    IF ~(required \subseteq DOMAIN exp) THEN Raises
    ELSE Done(shown("experience", i, exp,
                    <<"title", "company", "start_date", "end_date", "location", "description">>))

experience_lines(required, resume) ==
    IF holds(resume, "experience")
    THEN Joined(<<Heading("experience")>>
                \o [i \in DOMAIN resume.experience |->
                        experience_entry(required, resume.experience[i], i)])
    ELSE Done(<<>>)

\* a project of export_to_pdf, which joins project['technatives']
pdf_project(project, i) ==
    IF "name" \notin DOMAIN project THEN Raises
    ELSE IF filled(project, "technologies") /\ "technatives" \notin DOMAIN project THEN Raises
    ELSE IF "description" \notin DOMAIN project THEN Raises
    ELSE Done(shown("projects", i, project, <<"name">>)
              \o (IF filled(project, "technologies")
                  THEN shown("projects", i, project, <<"technatives">>) ELSE <<>>)
              \o shown("projects", i, project, <<"description", "achievements">>))

\* pdf_project joining project['technologies']
txt_project(project, i) ==
    IF ~({"name", "description"} \subseteq DOMAIN project) THEN Raises
    ELSE Done(shown("projects", i, project,
                    <<"name", "technologies", "description", "achievements">>))

docx_project(project, i) ==
    Done(shown("projects", i, project, <<"name", "technologies", "description", "achievements">>))

\* an education entry of export_to_pdf and of export_to_txt
txt_education(edu, i) ==
    IF ~({"degree", "institution"} \subseteq DOMAIN edu) THEN Raises
    ELSE Done(shown("education", i, edu,
                    <<"degree", "institution", "location", "graduation_date", "gpa",
                      "achievements">>))

docx_education(edu, i) ==
    Done(shown("education", i, edu,
               <<"institution", "location", "end_date", "degree", "achievements">>))

pdf_projects(resume) ==
    IF holds(resume, "projects")
    THEN Joined(<<Heading("projects")>>
                \o [i \in DOMAIN resume.projects |-> pdf_project(resume.projects[i], i)])
    ELSE Done(<<>>)
txt_projects(resume) ==
    IF holds(resume, "projects")
    THEN Joined(<<Heading("projects")>>
                \o [i \in DOMAIN resume.projects |-> txt_project(resume.projects[i], i)])
    ELSE Done(<<>>)
docx_projects(resume) ==
    IF holds(resume, "projects")
    THEN Joined(<<Heading("projects")>>
                \o [i \in DOMAIN resume.projects |-> docx_project(resume.projects[i], i)])
    ELSE Done(<<>>)
txt_educations(resume) ==
    IF holds(resume, "education")
    THEN Joined(<<Heading("education")>>
                \o [i \in DOMAIN resume.education |-> txt_education(resume.education[i], i)])
    ELSE Done(<<>>)
docx_educations(resume) ==
    IF holds(resume, "education")
    THEN Joined(<<Heading("education")>>
                \o [i \in DOMAIN resume.education |-> docx_education(resume.education[i], i)])
    ELSE Done(<<>>)

\* export_to_pdf: add_font reads the four font files before anything is drawn
export_to_pdf(found, resume) ==
    IF ~found THEN Raises
    ELSE Joined(<<header_lines(resume), summary_lines(resume),
                  experience_lines({"title", "company"}, resume), pdf_projects(resume),
                  txt_educations(resume), skills_lines(resume), certifications_lines(resume)>>)

export_to_docx(resume) ==
    Joined(<<header_lines(resume), summary_lines(resume), docx_educations(resume),
             experience_lines({"company"}, resume), docx_projects(resume),
             skills_lines(resume), certifications_lines(resume)>>)

export_to_txt(resume) ==
    Joined(<<header_lines(resume), summary_lines(resume),
             experience_lines({"title", "company"}, resume), txt_projects(resume),
             txt_educations(resume), skills_lines(resume), certifications_lines(resume)>>)

(***************************************************************************)
(* The specification of the export harness: a resume generate_tailored_-   *)
(* resume returned, as the export section of the UI filters it             *)
(* (src/app.py:1638-1650) or as a client posts it to /api/export/*         *)
(* (src/backend/main.py:191-216), or a dict that lacks optional keys, is   *)
(* handed to each renderer once.                                           *)
(***************************************************************************)
Applicant ==
    [Graduate EXCEPT !.experience = <<ExpNoSkills>>, !.projects = <<ProjPlain, ProjNoTech>>]
ExportProfiles ==
    {Prof(<<>>, <<>>, <<>>), Graduate, Applicant, Prof(<<>>, <<ExpWithSkills>>, <<ProjNoTech>>)}
SkillsFound == DictSet(EmptyDict, kTechnical, PyList(<<PyStr(<<"g", "o">>)>>))

\* what generate_tailored_resume returns for p when the summary call is answered
\* with summary, the experience and project calls with response and the skills
\* call with skills
produced(p, summary, response, skills) ==
    LET kept == kept_projects(p)
    IN  tailored_resume(
            p,
            [jd_analysis |-> EmptyDict, summary |-> PyStr(summary),
             experience |-> [i \in DOMAIN p.experience |->
                                tailored_experience(p.experience[i], response)],
             projects |-> [i \in DOMAIN kept |->
                              IF needs_generation(kept[i])
                              THEN generated_project(kept[i], response)
                              ELSE existing_project(kept[i])]],
            generated_skills(skills))

ProducedResumes ==
    {produced(p, s, EmptyDict, sk) :
        p \in ExportProfiles, s \in {<<>>, <<"s">>}, sk \in {EmptyDict, SkillsFound}}

\* resume.copy() without the sections whose checkbox is not ticked
export_filter(resume, include_summary, include_projects) ==
    LET dropped == (IF include_summary THEN {} ELSE {"summary"})
                   \cup (IF include_projects THEN {} ELSE {"projects"})
    IN  [k \in DOMAIN resume \ dropped |-> resume[k]]

\* dicts that hold the required keys of their entries and lack optional ones
SparseResumes ==
    {NoResume,
     [personal_info |-> [name |-> PyStr(<<"G">>)],
      experience |-> <<[title |-> PyStr(<<"d", "e", "v">>), company |-> PyStr(<<"c", "o">>)]>>],
     [education |-> <<[degree |-> PyStr(<<"b", "s">>), institution |-> PyStr(<<"u">>)]>>,
      skills |-> [technical |-> PyList(<<>>)]],
     [projects |-> <<[name |-> PyStr(<<"p", "l">>)]>>, certifications |-> PyList(<<>>)]}

ExportInputs ==
    {export_filter(r, s, p) : r \in ProducedResumes, s \in BOOLEAN, p \in BOOLEAN}
    \cup SparseResumes

InitExport ==
    /\ fonts \in BOOLEAN
    /\ export_resume \in ExportInputs
    /\ exported = NotExported
    /\ ExtractIdle /\ TruncIdle /\ StoreIdle /\ SessionIdle /\ RequestIdle

\* a renderer returned or raised; given is the dict as the call left it
Exported(format, r) ==
    /\ format \notin DOMAIN exported
    /\ exported' = [f \in DOMAIN exported \cup {format} |->
                        IF f = format
                        THEN [raised |-> r.raised, printed |-> r.printed, given |-> export_resume]
                        ELSE exported[f]]
    /\ UNCHANGED <<fonts, export_resume>>

ExportPdf == Exported("pdf", export_to_pdf(fonts, export_resume))
ExportDocx == Exported("docx", export_to_docx(export_resume))
ExportTxt == Exported("txt", export_to_txt(export_resume))

ExportOnly ==
    UNCHANGED <<extractVars, truncVars, storeVars, sessionVars, editorVars, requestVars,
                raceVars>>

NextExport ==
    \/ ExportPdf /\ ExportOnly
    \/ ExportDocx /\ ExportOnly
    \/ ExportTxt /\ ExportOnly

SpecExport == InitExport /\ [][NextExport]_vars

Formats == {"pdf", "docx", "txt"}
Sections == {"summary", "experience", "projects", "education", "skills", "certifications"}
\* the section is absent from the dict or empty
Lacks(resume, section) ==
    IF section \in {"summary", "certifications"} THEN ~filled(resume, section)
    ELSE ~holds(resume, section)
\* the items a renderer printed
Printed(f) == {exported[f].printed[k] : k \in DOMAIN exported[f].printed}
\* the dict lacks an optional section or an entry of it lacks an optional field
LacksSomething(resume) == \E s \in Sections : Lacks(resume, s)

\* C21: for every resume in which an optional section or field is absent or
\* empty, each renderer completes without raising, prints nothing of a section
\* that is absent or empty, and leaves the dict it was handed as it was
C21_AbsentFieldsAreOmitted ==
    \A f \in DOMAIN exported :
        LacksSomething(export_resume) =>
            /\ ~exported[f].raised
            /\ \A s \in Sections :
                   Lacks(export_resume, s) => ~\E it \in Printed(f) : it[1] = s
            /\ exported[f].given = export_resume

\* C22: for every resume the orchestrator can produce, the three renderers
\* complete and print the same sections and the same items of each entry
C22_RenderersShowTheSameData ==
    (export_resume \in ProducedResumes /\ DOMAIN exported = Formats) =>
        /\ \A f \in Formats : ~exported[f].raised
        /\ \A f, g \in Formats : Printed(f) = Printed(g)

=============================================================================
